---------------------------- MODULE Spec2Model ----------------------------
(***************************************************************************)
(* Model of the FastJLP kangaroo engine (Kangaroo.cpp, Backup.cpp, the     *)
(* thread/orchestrator code and the Metal GPU backend).                    *)
(*                                                                         *)
(* The secp256k1 library (Int, Point, Secp256K1, IntGroup) is an external  *)
(* oracle of the engine.  It is modelled by the same curve equation        *)
(* y^2 = x^3 + 7 over a small prime field: FieldP = 79, group order        *)
(* OrderN = 67 (prime, as for secp256k1).  A 256-bit Int is 4 limbs of     *)
(* LimbBits bits.                                                          *)
(***************************************************************************)
EXTENDS Integers, Sequences, FiniteSets, TLC

VARIABLES
  \* ---- build / configuration
  useSymmetry,      \* the USE_SYMMETRY build flag
  rangeStart,       \* Kangaroo::rangeStart
  rangeEnd,         \* Kangaroo::rangeEnd
  privKey,          \* the unknown scalar k of keysToSearch[keyIdx] (ghost)
  keyToSearch,      \* Kangaroo::keyToSearch (range-shifted target)
  jumpDistance,     \* Kangaroo::jumpDistance[NB_JUMP]
  dpSize,           \* Kangaroo::dpSize
  \* ---- one CPU worker's herd (TH_PARAM px/py/distance/symClass)
  px, py, distance, symClass,
  \* ---- shared search state
  hashTable,        \* the DP table: a set of stored entries
  endOfSearch,      \* Kangaroo::endOfSearch
  output,           \* what Output() wrote: a sequence of lines
  collisionInSameHerd,
  nbStep,           \* number of completed walk steps (bounded by MaxSteps)
  \* ---- resolver harness
  ccArgs,           \* arguments of the last CollisionCheck call
  ccRet,            \* its return value
  \* ---- position of the CPU worker in SolveKeyCPU
  pc,               \* "step": random walk, "dp": the Add-to-table loop
  gIdx,             \* loop index g of the Add-to-table loop
  \* ---- the Metal backend and the host side of SolveKeyGPU
  gpuKang,          \* device buffer of gpu_kpoint_t, one per kangaroo
  dpCount,          \* device dp_count (atomic counter)
  dpItems,          \* device dp_items, a sequence of words
  dpRing,           \* host copy filled by readDP
  outCount,         \* count returned by readDP
  gpuFound,         \* items decoded by the host from dpRing
  lastDPs,          \* distinguished points met by the last dispatch (ghost)
  nbDispatch,       \* number of runOnce calls so far
  \* ---- threads: workers, the orchestrator (Process) and the async flush
  wpc,              \* position of each worker thread
  thIsRunning,      \* TH_PARAM::isRunning of each worker
  thHasStarted,     \* TH_PARAM::hasStarted
  thIsWaiting,      \* TH_PARAM::isWaiting
  thPending,        \* a point of the last step was not offered (ghost)
  saveMutex,        \* holder of saveMutex, NoThread when free
  ghMutex,          \* holder of ghMutex, NoThread when free
  saveRequest,      \* Kangaroo::saveRequest
  asyncSaveRunning, \* Kangaroo::asyncSaveRunning
  asyncSaveThread,  \* Kangaroo::asyncSaveThread: a flush id, 0 when empty
  flushState,       \* state of each RunAsyncSave thread ever started
  opc,              \* position of the orchestrator in Process / SaveWork
  nbSave,           \* number of snapshots captured
  \* ---- records kept for the properties
  addLog,           \* the AddToTable calls of SpecTable, in order
  \* ---- the work file: SaveWork, RunAsyncSave, LoadWork, FetchWalks
  clientMode,       \* Kangaroo::clientMode
  splitWorkfile,    \* Kangaroo::splitWorkfile
  saveKangaroo,     \* Kangaroo::saveKangaroo
  payload,          \* the AsyncSavePayload captured by SaveWork
  savedTable,       \* the live table when the save was requested (ghost)
  disk,             \* the work file: whether it exists, and its bytes
  loaded,           \* what LoadWork and FetchWalks restored
  \* ---- the pseudo-random generator and the calls of CreateJumpTable
  rndState,         \* state of the generator behind rseed / Int::Rand
  rndDraws,         \* number of values drawn for herds so far
  jumpLog,          \* the CreateJumpTable calls, in order
  \* ---- harness of the helper functions
  fnArgs,           \* arguments of the helper function under check
  fnRet             \* what it returned

vars == <<useSymmetry, rangeStart, rangeEnd, privKey, keyToSearch, jumpDistance,
          dpSize, px, py, distance, symClass, hashTable, endOfSearch, output,
          collisionInSameHerd, nbStep, ccArgs, ccRet, pc, gIdx,
          gpuKang, dpCount, dpItems, dpRing, outCount, gpuFound, lastDPs,
          nbDispatch, wpc, thIsRunning, thHasStarted, thIsWaiting, thPending,
          saveMutex, ghMutex, saveRequest, asyncSaveRunning, asyncSaveThread, flushState,
          opc, nbSave, addLog, clientMode, splitWorkfile, saveKangaroo,
          payload, savedTable, disk, loaded, rndState, rndDraws, jumpLog,
          fnArgs, fnRet>>

-----------------------------------------------------------------------------
(* Program constants *)

TAME == 0
WILD == 1
NB_JUMP == 4
CPU_GRP_SIZE == 2
LimbBits == 2
FieldP == 79
OrderN == 67

(* Bounds of the model *)
MaxSteps == 3
MaxRangeWidth == 8
MaxDist == 12
MaxDispatch == 2

Pow2(n) == IF n = 0 THEN 1 ELSE 2 ^ n
LimbBase == Pow2(LimbBits)
Limb(x, i) == (x \div Pow2(i * LimbBits)) % LimbBase

-----------------------------------------------------------------------------
(* The scalar / point oracle *)

\* x and y of m*G for m = 0 .. OrderN-1, G = (1, 18); 0*G is the cleared
\* point (0,0,0) of Point::Clear().
CurveX == <<0, 1, 60, 15, 49, 42, 59, 61, 43, 37, 26, 18, 12, 39, 9, 63, 19,
            75, 21, 68, 29, 6, 45, 35, 66, 28, 17, 14, 74, 23, 55, 41, 8, 27,
            27, 8, 41, 55, 23, 74, 14, 17, 28, 66, 35, 45, 6, 29, 68, 21, 75,
            19, 63, 9, 39, 12, 18, 26, 37, 43, 61, 59, 42, 49, 15, 60, 1>>
CurveY == <<0, 18, 10, 8, 5, 54, 12, 10, 35, 69, 19, 54, 47, 47, 5, 63, 25,
            41, 74, 63, 8, 12, 19, 71, 41, 32, 41, 67, 35, 18, 61, 35, 60, 63,
            16, 19, 44, 18, 61, 44, 12, 38, 47, 38, 8, 60, 67, 71, 16, 5, 38,
            54, 16, 74, 32, 32, 25, 60, 10, 44, 69, 67, 25, 74, 71, 69, 61>>

Pt(x, y) == [x |-> x, y |-> y]
PointZero == Pt(0, 0)

\* Secp256K1::ComputePublicKey: k*G
ComputePublicKey(k) == Pt(CurveX[(k % OrderN) + 1], CurveY[(k % OrderN) + 1])

\* discrete logarithm of a curve point (only used to state the group law)
DLog(P) ==
  CHOOSE m \in 0..(OrderN - 1) : CurveX[m + 1] = P.x /\ CurveY[m + 1] = P.y

IsCurvePoint(P) == \E m \in 0..(OrderN - 1) : ComputePublicKey(m) = P

\* Secp256K1::AddDirect: affine point addition of the oracle
AddDirect(P, Q) == ComputePublicKey((DLog(P) + DLog(Q)) % OrderN)

\* Int::ModNeg, ModSub, ModMulK1, ModSquareK1 in the field
ModNeg(a) == (FieldP - (a % FieldP)) % FieldP
ModSub(a, b) == (a - b + 2 * FieldP) % FieldP
ModMulK1(a, b) == (a * b) % FieldP
ModSquareK1(a) == (a * a) % FieldP
\* IntGroup::ModInv / Int::ModInv: the inverse in the field; 0 has none and
\* the extended-Euclid routine leaves 0
InvTable ==
  [a \in 0..(FieldP - 1) |->
     IF a = 0 THEN 0 ELSE CHOOSE v \in 1..(FieldP - 1) : (a * v) % FieldP = 1]
ModInv(a) == InvTable[a % FieldP]
\* Int::ModPositiveK1: replaces y by the smaller of y and -y; true iff replaced
ModPositiveK1(y) == y >= ModNeg(y)
ModPositiveK1Value(y) == IF ModPositiveK1(y) THEN ModNeg(y) ELSE y

\* Int::ModAddK1order, ModSubK1order, ModNegK1order modulo the group order
ModAddK1order(a, b) == (a + b) % OrderN
ModSubK1order(a, b) == (a - b + 2 * OrderN) % OrderN
ModNegK1order(a) == (OrderN - (a % OrderN)) % OrderN

\* Int::GetBitLength
RECURSIVE GetBitLength(_)
GetBitLength(v) == IF v = 0 THEN 0 ELSE 1 + GetBitLength(v \div 2)

-----------------------------------------------------------------------------
(* Kangaroo::InitRange *)

rangeWidth == rangeEnd - rangeStart
rangePower == GetBitLength(rangeWidth)
rangeWidthDiv2 == rangeWidth \div 2
rangeWidthDiv4 == rangeWidthDiv2 \div 2

(* Kangaroo::InitSearchKey *)

keysToSearch == ComputePublicKey(privKey)

StartPoint(sym, rs, re) ==
  IF sym THEN ModAddK1order(rs, (re - rs) \div 2) ELSE rs % OrderN

InitSearchKey(sym, rs, re, key) ==
  LET SP == StartPoint(sym, rs, re)
  IN  IF SP # 0
      THEN LET RS  == ComputePublicKey(SP)
               RSn == Pt(RS.x, ModNeg(RS.y))
           IN  AddDirect(key, RSn)
      ELSE key

keyToSearchNeg == Pt(keyToSearch.x, ModNeg(keyToSearch.y))


-----------------------------------------------------------------------------
(* Kangaroo::Output: recompute the public key of the candidate and print it
   only when it is the searched key *)

PrivLine(pk) == [kind |-> "Priv", key |-> pk]
FailedLine == [kind |-> "Failed", key |-> 0]

Output(pk) ==
  LET PR == ComputePublicKey(pk)
  IN  IF PR = keysToSearch
      THEN [ok |-> TRUE, lines |-> <<PrivLine(pk)>>]
      ELSE [ok |-> FALSE, lines |-> <<FailedLine>>]

(* Kangaroo::CheckKey *)

\* variant: the range start is not added back
ShiftKeyNoStart(pk) ==
  IF useSymmetry THEN ModAddK1order(pk, rangeWidthDiv2) ELSE pk

ShiftKey(pk) ==
  ModAddK1order(IF useSymmetry THEN ModAddK1order(pk, rangeWidthDiv2) ELSE pk,
                rangeStart)

\* variant: the candidate is printed without Output's verification
CheckKeyUnverified(d1, d2, type) ==
  LET a  == IF type % 2 = 1 THEN ModNegK1order(d1) ELSE d1
      b  == IF (type \div 2) % 2 = 1 THEN ModNegK1order(d2) ELSE d2
      pk == ModAddK1order(a, b)
      P  == ComputePublicKey(pk)
  IN  IF P = keyToSearch \/ P = keyToSearchNeg
      THEN [ok |-> TRUE, lines |-> <<PrivLine(pk)>>]
      ELSE [ok |-> FALSE, lines |-> <<>>]

CheckKey(d1, d2, type) ==
  LET a  == IF type % 2 = 1 THEN ModNegK1order(d1) ELSE d1
      b  == IF (type \div 2) % 2 = 1 THEN ModNegK1order(d2) ELSE d2
      pk == ModAddK1order(a, b)
      P  == ComputePublicKey(pk)
  IN  IF P = keyToSearch THEN Output(ShiftKey(pk))
      ELSE IF P = keyToSearchNeg THEN Output(ShiftKey(ModNegK1order(pk)))
      ELSE [ok |-> FALSE, lines |-> <<>>]

\* CheckKey(Td,Wd,0) || CheckKey(Td,Wd,1) || CheckKey(Td,Wd,2) || CheckKey(Td,Wd,3)
RECURSIVE CheckKeys(_, _, _)
CheckKeys(Td, Wd, type) ==
  IF type > 3 THEN [ok |-> FALSE, lines |-> <<>>]
  ELSE LET r == CheckKey(Td, Wd, type)
       IN  IF r.ok THEN r
           ELSE LET rest == CheckKeys(Td, Wd, type + 1)
                IN  [ok |-> rest.ok, lines |-> r.lines \o rest.lines]

(* Kangaroo::CollisionCheck: ret is the return value, eos the value of
   endOfSearch afterwards, lines what was printed *)

\* variant: a wrong collision is answered like a stored point
CollisionCheckKeepsWalker(d1, type1, d2, type2, eos) ==
  IF type1 = type2
  THEN [ret |-> FALSE, eos |-> eos, lines |-> <<>>]
  ELSE LET Td == IF type1 = TAME THEN d1 ELSE d2
           Wd == IF type1 = TAME THEN d2 ELSE d1
           r  == CheckKeys(Td, Wd, 0)
       IN  [ret |-> TRUE, eos |-> r.ok, lines |-> r.lines]

CollisionCheck(d1, type1, d2, type2, eos) ==
  IF type1 = type2
  THEN [ret |-> FALSE, eos |-> eos, lines |-> <<>>]
  ELSE LET Td == IF type1 = TAME THEN d1 ELSE d2
           Wd == IF type1 = TAME THEN d2 ELSE d1
           r  == CheckKeys(Td, Wd, 0)
       IN  [ret |-> r.ok, eos |-> r.ok, lines |-> r.lines]

-----------------------------------------------------------------------------
(* The distinguished-point hash table *)

ADD_OK == 0
ADD_DUPLICATE == 1
ADD_COLLISION == 2
DistMagBits == 6

\* the in-table fingerprint of x: limbs 0..2
Fingerprint(x) == x % Pow2(3 * LimbBits)

\* HashTable::Convert: the stored distance is sign + magnitude + kind tag
Convert(d, kType) ==
  LET neg == d > OrderN \div 2
      mag == (IF neg THEN ModNegK1order(d) ELSE d) % Pow2(DistMagBits)
  IN  [sign |-> IF neg THEN 1 ELSE 0, mag |-> mag, kind |-> kType]

\* HashTable::CalcDistAndType
CalcDistAndType(e) ==
  [dist |-> IF e.sign = 1 THEN ModNegK1order(e.mag) ELSE e.mag, kType |-> e.kind]

\* HashTable::Add(x, d, kType): status, new table and, on a collision, the
\* pre-existing distance and kind (hashTable.kDist / hashTable.kType)
HashAdd(table, x, d, kType) ==
  LET fp  == Fingerprint(x)
      hit == {t \in table : t.x = fp}
  IN  IF hit = {}
      THEN [status |-> ADD_OK,
            table  |-> table \cup {[x |-> fp, d |-> Convert(d, kType)]},
            kDist  |-> 0, kType |-> 0]
      ELSE LET t == CHOOSE t \in hit : TRUE
               o == CalcDistAndType(t.d)
           IN  IF o.kType = kType
               THEN [status |-> ADD_DUPLICATE, table |-> table,
                     kDist |-> 0, kType |-> 0]
               ELSE [status |-> ADD_COLLISION, table |-> table,
                     kDist |-> o.dist, kType |-> o.kType]

(* Kangaroo::AddToTable(pos, dist, kType) *)
\* variant: a collision is answered like a stored point whatever
\* CollisionCheck returns
AddToTableCollisionKept(table, pos, dist, kType, eos) ==
  LET a == HashAdd(table, pos, dist, kType)
  IN  IF a.status = ADD_COLLISION
      THEN LET c == CollisionCheck(a.kDist, a.kType, dist, kType, eos)
           IN  [ret |-> TRUE, eos |-> c.eos, lines |-> c.lines,
                table |-> a.table]
      ELSE [ret |-> a.status = ADD_OK, eos |-> eos, lines |-> <<>>,
            table |-> a.table]

AddToTableDupOk(table, pos, dist, kType, eos) ==
  LET a == HashAdd(table, pos, dist, kType)
  IN  IF a.status = ADD_COLLISION
      THEN LET c == CollisionCheck(a.kDist, a.kType, dist, kType, eos)
           IN  [ret |-> c.ret, eos |-> c.eos, lines |-> c.lines,
                table |-> a.table]
      ELSE [ret |-> a.status # ADD_COLLISION, eos |-> eos, lines |-> <<>>,
            table |-> a.table]

AddToTable(table, pos, dist, kType, eos) ==
  LET a == HashAdd(table, pos, dist, kType)
  IN  IF a.status = ADD_COLLISION
      THEN LET c == CollisionCheck(a.kDist, a.kType, dist, kType, eos)
           IN  [ret |-> c.ret, eos |-> c.eos, lines |-> c.lines, table |-> a.table]
      ELSE [ret |-> a.status = ADD_OK, eos |-> eos, lines |-> <<>>,
            table |-> a.table]

(* Kangaroo::SetDP / IsDP on limb 3 of x *)
dMask(size) ==
  IF size = 0 THEN 0
  ELSE LET sz == IF size > LimbBits THEN LimbBits ELSE size
       IN  (LimbBase - 1) - (Pow2(LimbBits - sz) - 1)
\* x & dMask for a mask made of the top bits of the limb
AndMask(x, m) == x - (x % (LimbBase - m))
IsDP(x, size) == AndMask(Limb(x, 3), dMask(size)) = 0

-----------------------------------------------------------------------------
(* Kangaroo::CreateHerd for one kangaroo of the given type; r is the value
   drawn by Int::Rand *)

RandBits == IF useSymmetry THEN rangePower - 1 ELSE rangePower
RandSet == 0..(Pow2(RandBits) - 1)
\* the draws considered when a single kangaroo is re-created
ResetSet == {r \in RandSet : r % 5 = 2}

CreateHerd(r, type) ==
  LET d0 == IF type = WILD
            THEN ModSubK1order(r, IF useSymmetry THEN rangeWidthDiv4
                                                 ELSE rangeWidthDiv2)
            ELSE r
      S  == AddDirect(IF type = TAME THEN PointZero ELSE keyToSearch,
                      ComputePublicKey(d0))
      sw == useSymmetry /\ ModPositiveK1(S.y)
  IN  [x |-> S.x,
       y |-> IF useSymmetry THEN ModPositiveK1Value(S.y) ELSE S.y,
       d |-> IF sw THEN ModNegK1order(d0) ELSE d0]

(* Kangaroo::CreateJumpTable: the jump points are jumpDistance[i]*G *)
jumpPointx(j) == ComputePublicKey(jumpDistance[j + 1]).x
jumpPointy(j) == ComputePublicKey(jumpDistance[j + 1]).y

(* One step of one kangaroo in SolveKeyCPU *)
JumpIndex(x, sc) ==
  IF useSymmetry THEN (Limb(x, 0) % (NB_JUMP \div 2)) + (NB_JUMP \div 2) * sc
  ELSE Limb(x, 0) % NB_JUMP

CPUStep(x, y, d, sc) ==
  LET jmp == JumpIndex(x, sc)
      p1x == jumpPointx(jmp)
      p1y == jumpPointy(jmp)
      dx  == ModInv(ModSub(x, p1x))
      dy  == ModSub(y, p1y)
      s   == ModMulK1(dy, dx)
      p   == ModSquareK1(s)
      rx  == ModSub(ModSub(p, p1x), x)
      ry  == ModSub(ModMulK1(ModSub(x, rx), s), y)
      nd  == ModAddK1order(d, jumpDistance[jmp + 1])
      sw  == useSymmetry /\ ModPositiveK1(ry)
  IN  [x  |-> rx,
       y  |-> IF useSymmetry THEN ModPositiveK1Value(ry) ELSE ry,
       d  |-> IF sw THEN ModNegK1order(nd) ELSE nd,
       sc |-> IF sw THEN 1 - sc ELSE sc]

-----------------------------------------------------------------------------
(* Configurations: build flag, search range, searched key, jump table *)

RangeStarts == {0, 3}

\* jump tables CreateJumpTable can draw for rangePower = 4: without symmetry
\* jumpBit = 3 and the distances are in 1..7; with symmetry jumpBit = 2,
\* u = 3, v = 5 and the distances are in {1,u} and {1,v}
JumpTables(sym) ==
  IF sym THEN {<<3, 3, 1, 1>>, <<1, 1, 5, 1>>}
  ELSE {<<2, 7, 5, 2>>, <<3, 2, 6, 5>>}

InitConfig ==
  /\ useSymmetry \in BOOLEAN
  /\ rangeStart \in RangeStarts
  /\ rangeEnd = rangeStart + MaxRangeWidth
  /\ privKey \in (rangeStart..rangeEnd) \ {0}
  /\ keyToSearch = InitSearchKey(useSymmetry, rangeStart, rangeEnd,
                                 ComputePublicKey(privKey))
  /\ jumpDistance \in JumpTables(useSymmetry)

InitShared ==
  /\ hashTable = {}
  /\ endOfSearch = FALSE
  /\ output = <<>>
  /\ collisionInSameHerd = 0

NoHerd ==
  /\ px = <<>> /\ py = <<>> /\ distance = <<>> /\ symClass = <<>>
  /\ nbStep = 0 /\ gIdx = 0

NoResolverCall == ccArgs = <<>> /\ ccRet = FALSE

FileVars == <<clientMode, splitWorkfile, saveKangaroo, payload, savedTable,
              disk, loaded>>

NoFile == [exists |-> FALSE, bytes |-> <<>>]

NoSave ==
  /\ clientMode = FALSE /\ splitWorkfile = FALSE /\ saveKangaroo = FALSE
  /\ payload = <<>> /\ savedTable = {} /\ disk = NoFile /\ loaded = <<>>

JumpVars == <<rndState, rndDraws, jumpLog>>

NoJump == rndState = 0 /\ rndDraws = 0 /\ jumpLog = <<>>

FnVars == <<fnArgs, fnRet>>

NoFn == fnArgs = <<>> /\ fnRet = <<>>

AuxVars == <<addLog, FileVars, JumpVars, FnVars>>

NoAux == addLog = <<>> /\ NoSave /\ NoJump /\ NoFn

ConfigVars == <<useSymmetry, rangeStart, rangeEnd, privKey, keyToSearch,
                jumpDistance, dpSize>>
HerdVars == <<px, py, distance, symClass>>
GpuVars == <<gpuKang, dpCount, dpItems, dpRing, outCount, gpuFound, lastDPs,
             nbDispatch>>

ThreadVars == <<wpc, thIsRunning, thHasStarted, thIsWaiting, thPending,
                saveMutex, ghMutex, saveRequest, asyncSaveRunning, asyncSaveThread,
                flushState, opc, nbSave>>

NoThread == 0 - 1

NoThreads ==
  /\ wpc = <<>> /\ thIsRunning = <<>> /\ thHasStarted = <<>>
  /\ thIsWaiting = <<>> /\ thPending = <<>>
  /\ saveMutex = NoThread /\ ghMutex = NoThread
  /\ saveRequest = FALSE /\ asyncSaveRunning = FALSE /\ asyncSaveThread = 0
  /\ flushState = <<>> /\ opc = "none" /\ nbSave = 0

NoGpu ==
  /\ gpuKang = <<>> /\ dpCount = 0 /\ dpItems = <<>> /\ dpRing = <<>>
  /\ outCount = 0 /\ gpuFound = <<>> /\ lastDPs = <<>> /\ nbDispatch = 0

-----------------------------------------------------------------------------
(* Specification SpecResolver: one call of CollisionCheck on the distances
   and kinds of two distinguished points *)

DistSet == (0..MaxDist) \cup ((OrderN - MaxDist)..(OrderN - 1))

InitResolver ==
  /\ InitConfig /\ InitShared /\ NoHerd /\ NoResolverCall /\ NoGpu /\ NoAux
  /\ NoThreads
  /\ dpSize = 0
  /\ pc = "resolve"

CallCollisionCheck ==
  /\ pc = "resolve"
  /\ \E d1 \in DistSet, d2 \in DistSet, type1 \in {TAME, WILD},
        type2 \in {TAME, WILD} :
       LET c == CollisionCheck(d1, type1, d2, type2, endOfSearch)
       IN  /\ ccArgs' = [d1 |-> d1, type1 |-> type1, d2 |-> d2, type2 |-> type2]
           /\ ccRet' = c.ret
           /\ endOfSearch' = c.eos
           /\ output' = output \o c.lines
  /\ pc' = "resolved"
  /\ UNCHANGED <<ConfigVars, HerdVars, hashTable, collisionInSameHerd, nbStep,
                 gIdx, GpuVars, ThreadVars, AuxVars>>

NextResolver == CallCollisionCheck

SpecResolver == InitResolver /\ [][NextResolver]_vars

-----------------------------------------------------------------------------
(* Properties of the collision resolver *)

Resolved == pc = "resolved"
ArgTd == IF ccArgs.type1 = TAME THEN ccArgs.d1 ELSE ccArgs.d2
ArgWd == IF ccArgs.type1 = TAME THEN ccArgs.d2 ELSE ccArgs.d1
\* the two distances describe one x: x(Td*G) = x(keyToSearch + Wd*G)
TrueCollision ==
  /\ ccArgs.type1 # ccArgs.type2
  /\ ComputePublicKey(ArgTd).x
       = AddDirect(keyToSearch, ComputePublicKey(ArgWd)).x
LastLine == output[Len(output)]

\* C1: soundness of the resolver.  Every private key that is printed
\* multiplies G to the searched public key; endOfSearch is only set together
\* with such a printed key; a call that reports a failed candidate or finds no
\* key returns false and leaves endOfSearch false.
C1_Soundness ==
  /\ \A i \in 1..Len(output) :
       output[i].kind = "Priv" => ComputePublicKey(output[i].key) = keysToSearch
  /\ endOfSearch =>
       /\ output # <<>>
       /\ LastLine.kind = "Priv"
       /\ ComputePublicKey(LastLine.key) = keysToSearch
  /\ Resolved => (ccRet <=> endOfSearch)
  /\ (Resolved /\ (output = <<>> \/ LastLine.kind = "Failed")) =>
       (~ccRet /\ ~endOfSearch)

\* a call on two distances of different kinds found and printed the key of a
\* range that does not start at 0
C1_Witness ==
  /\ Resolved /\ endOfSearch /\ ccRet
  /\ rangeStart # 0
  /\ output = <<PrivLine(privKey)>>

-----------------------------------------------------------------------------
(* Specification SpecWalk: one CPU worker (SolveKeyCPU, not in client mode)
   walking its herd of CPU_GRP_SIZE kangaroos; kangaroo g is of kind g % 2 *)

Herd == 0..(CPU_GRP_SIZE - 1)
KType(g) == g % 2
DpSizes == {0, LimbBits}

InitWalk ==
  /\ InitConfig /\ InitShared /\ NoHerd /\ NoResolverCall /\ NoGpu /\ NoAux
  /\ NoThreads
  /\ dpSize \in DpSizes
  /\ pc = "create"

\* SolveKeyCPU prologue: symClass cleared, CreateHerd(CPU_GRP_SIZE,..,TAME)
CreateKangaroos ==
  /\ pc = "create"
  /\ \E r \in [Herd -> RandSet] :
       LET k(g) == CreateHerd(r[g], KType(g))
       IN  /\ px' = [g \in Herd |-> k(g).x]
           /\ py' = [g \in Herd |-> k(g).y]
           /\ distance' = [g \in Herd |-> k(g).d]
  /\ symClass' = [g \in Herd |-> 0]
  /\ pc' = "step"
  /\ UNCHANGED <<ConfigVars, hashTable, endOfSearch, output,
                 collisionInSameHerd, nbStep, ccArgs, ccRet, AuxVars, gIdx, GpuVars, ThreadVars>>

\* the random walk of the whole group, lines 388-444
RandomWalk ==
  /\ pc = "step"
  /\ ~endOfSearch
  /\ nbStep < MaxSteps
  /\ LET k(g) == CPUStep(px[g], py[g], distance[g], symClass[g])
     IN  /\ px' = [g \in Herd |-> k(g).x]
         /\ py' = [g \in Herd |-> k(g).y]
         /\ distance' = [g \in Herd |-> k(g).d]
         /\ symClass' = [g \in Herd |-> k(g).sc]
  /\ nbStep' = nbStep + 1
  /\ gIdx' = 0
  /\ pc' = "dp"
  /\ UNCHANGED <<ConfigVars, hashTable, endOfSearch, output,
                 collisionInSameHerd, ccArgs, ccRet, AuxVars, GpuVars, ThreadVars>>

\* one iteration g of the Add-to-table loop, lines 474-491
AddDistinguished ==
  /\ pc = "dp"
  /\ LET g == gIdx
         a == AddToTable(hashTable, px[g], distance[g], KType(g), endOfSearch)
     IN  /\ IF IsDP(px[g], dpSize)
            THEN /\ hashTable' = a.table
                 /\ endOfSearch' = a.eos
                 /\ output' = output \o a.lines
                 /\ IF a.ret
                    THEN UNCHANGED <<HerdVars, collisionInSameHerd>>
                    ELSE /\ \E r \in ResetSet :
                              LET k == CreateHerd(r, KType(g))
                              IN  /\ px' = [px EXCEPT ![g] = k.x]
                                  /\ py' = [py EXCEPT ![g] = k.y]
                                  /\ distance' = [distance EXCEPT ![g] = k.d]
                         /\ collisionInSameHerd' = collisionInSameHerd + 1
                         /\ UNCHANGED symClass
            ELSE UNCHANGED <<hashTable, endOfSearch, output, HerdVars,
                             collisionInSameHerd>>
         /\ IF g + 1 < CPU_GRP_SIZE /\ ~endOfSearch'
            THEN gIdx' = g + 1 /\ pc' = "dp"
            ELSE gIdx' = 0 /\ pc' = "step"
  /\ UNCHANGED <<ConfigVars, nbStep, ccArgs, ccRet, AuxVars, GpuVars, ThreadVars>>

NextWalk == CreateKangaroos \/ RandomWalk \/ AddDistinguished

SpecWalk == InitWalk /\ [][NextWalk]_vars

\* the x of kangaroo g is the x of the point its distance describes
OnWalk(g) ==
  LET D == ComputePublicKey(distance[g])
  IN  IF KType(g) = TAME THEN px[g] = D.x
      ELSE \/ px[g] = AddDirect(keyToSearch, D).x
           \/ useSymmetry /\ px[g] = AddDirect(keyToSearchNeg, D).x

\* the x of kangaroo g equals the x of the jump point the step selects
EqualX(g) == px[g] = jumpPointx(JumpIndex(px[g], symClass[g]))

\* C3: walker invariant.  After CreateHerd and after every step of
\* SolveKeyCPU each kangaroo's x is x(d*G) for a tame and x(keyToSearch + d*G)
\* for a wild one (up to the sign class under symmetry); in particular a
\* kangaroo that is on its walk is still on it after the step in which its x
\* equals the x of the selected jump point.
C3_WalkerInvariant ==
  [][(pc = "step" /\ pc' = "dp") =>
        \A g \in Herd : (OnWalk(g) /\ EqualX(g)) => OnWalk(g)']_vars

-----------------------------------------------------------------------------
(* The Metal backend: PackKangaroo / UnpackKangaroo, the comp_kangaroos
   kernel and the distinguished-point ring.  One thread group of one thread
   owns GPU_GRP_SIZE kangaroos; kangaroo index idx is of kind idx % 2.  A
   word of the ring holds one limb. *)

GPU_GRP_SIZE == 2
NB_RUN == 2
kMaxFound == 3
kDpWords == 7
GpuDistLimbBits == 3

GpuDistLimb == Pow2(GpuDistLimbBits)
\* capacity of gpu_kpoint_t::dist (two limbs)
GpuDistBase == GpuDistLimb * GpuDistLimb
GpuHerd == 0..(GPU_GRP_SIZE - 1)
wildOffset == IF useSymmetry THEN rangeWidthDiv4 ELSE rangeWidthDiv2
DpBufferWords == kMaxFound * kDpWords + 1
DpRingWords == (kMaxFound + 1) * kDpWords

\* limb i of a distance as the device keeps it
GpuLimb(d, i) == (d \div (IF i = 0 THEN 1 ELSE GpuDistLimb)) % GpuDistLimb
\* the Int whose limbs 0..3 are given, higher limbs zero
IntOfLimbs(l) ==
  l[0] + LimbBase * l[1] + LimbBase * LimbBase * l[2]
       + LimbBase * LimbBase * LimbBase * l[3]

(* PackKangaroo(px, py, dist, index, wildOffset, out): the MetalKangaroo *)
PackMetalKangarooNoOffset(x, y, d, index, off) ==
  [px |-> [i \in 0..3 |-> Limb(x, i)],
   py |-> [i \in 0..3 |-> Limb(y, i)],
   dist |-> [i \in 0..1 |-> GpuLimb(d, i)],
   lastJump |-> NB_JUMP]

PackMetalKangaroo(x, y, d, index, off) ==
  LET adjusted == IF index % 2 = WILD THEN ModAddK1order(d, off) ELSE d
  IN  [px |-> [i \in 0..3 |-> Limb(x, i)],
       py |-> [i \in 0..3 |-> Limb(y, i)],
       dist |-> [i \in 0..1 |-> GpuLimb(adjusted, i)],
       lastJump |-> NB_JUMP]

(* UnpackKangaroo(src, index, wildOffset, px, py, dist) *)
UnpackMetalKangaroo(k, index, off) ==
  LET adjusted == k.dist[0] + GpuDistLimb * k.dist[1]
  IN  [x |-> IntOfLimbs(k.px), y |-> IntOfLimbs(k.py),
       d |-> IF index % 2 = WILD THEN ModSubK1order(adjusted, off)
             ELSE adjusted]

\* the device kangaroo with its limbs put together
PackKangaroo(x, y, d, index) ==
  LET m == PackMetalKangaroo(x, y, d, index, wildOffset)
  IN  [px |-> IntOfLimbs(m.px), py |-> IntOfLimbs(m.py),
       dist |-> m.dist[0] + GpuDistLimb * m.dist[1],
       lastJump |-> m.lastJump]

UnpackKangaroo(k, index) ==
  [x |-> k.px, y |-> k.py,
   d |-> IF index % 2 = WILD THEN ModSubK1order(k.dist, wildOffset)
         ELSE k.dist]

\* jump selection of the kernel
GpuJumpIndex(k) ==
  LET jmp == Limb(k.px, 0) % NB_JUMP
  IN  IF useSymmetry /\ jmp = k.lastJump THEN (k.lastJump + 1) % NB_JUMP
      ELSE jmp

Add128Vec(dst, delta) == (dst + delta) % GpuDistBase
ModNeg256Order(d) == (OrderN - d) % GpuDistBase

\* one step of one kangaroo in comp_kangaroos
GpuStep(k) ==
  LET jmp == GpuJumpIndex(k)
      p1x == jumpPointx(jmp)
      p1y == jumpPointy(jmp)
      dx  == ModInv(ModSub(k.px, p1x))
      dy  == ModSub(k.py, p1y)
      s   == ModMulK1(dy, dx)
      p   == ModSquareK1(s)
      rx  == ModSub(ModSub(p, p1x), k.px)
      ry  == ModSub(ModMulK1(ModSub(k.px, rx), s), k.py)
      nd  == Add128Vec(k.dist, jumpDistance[jmp + 1] % GpuDistBase)
      sw  == useSymmetry /\ ModPositiveK1(ry)
  IN  [px   |-> rx,
       py   |-> IF useSymmetry THEN ModPositiveK1Value(ry) ELSE ry,
       dist |-> IF sw THEN ModNeg256Order(nd) ELSE nd,
       lastJump |-> IF useSymmetry THEN jmp ELSE k.lastJump]

\* the words of one ring item: x limbs, dist limbs, kangaroo index
DpWords(x, dist, index) ==
  <<Limb(x, 0), Limb(x, 1), Limb(x, 2), Limb(x, 3),
    dist % GpuDistLimb, dist \div GpuDistLimb, index>>

\* StoreDpItem: dest = dp_items + pos * kDpWords.  The buffer is the first
\* DpBufferWords words of device memory: a write beyond it is a write to
\* the memory that follows, shown as the sequence growing.
StoreDpItem(items, pos, x, dist, index) ==
  LET last == IF (pos + 1) * kDpWords > Len(items)
              THEN (pos + 1) * kDpWords ELSE Len(items)
  IN  [i \in 1..last |->
         IF i > pos * kDpWords /\ i <= (pos + 1) * kDpWords
         THEN DpWords(x, dist, index)[i - pos * kDpWords]
         ELSE IF i <= Len(items) THEN items[i] ELSE 0]

\* comp_kangaroos: if (pos < max_found) after the atomic_fetch_add
StoreAllowedOffByOne(pos) == pos <= kMaxFound

StoreAllowed(pos) == pos < kMaxFound

\* the kernel body for kangaroo g in one run: step, then emit when it is a DP
KernelOne(st, g) ==
  LET k    == GpuStep(st.kang[g])
      isdp == IsDP(k.px, dpSize)
      pos  == st.count
  IN  [kang  |-> [st.kang EXCEPT ![g] = k],
       count |-> IF isdp THEN pos + 1 ELSE pos,
       items |-> IF isdp /\ StoreAllowed(pos)
                 THEN StoreDpItem(st.items, pos, k.px, k.dist, g)
                 ELSE st.items,
       dps   |-> IF isdp THEN Append(st.dps, DpWords(k.px, k.dist, g))
                 ELSE st.dps]

\* nb_run runs over the GPU_GRP_SIZE kangaroos of the thread
RECURSIVE Kernel(_, _)
Kernel(st, i) ==
  IF i = NB_RUN * GPU_GRP_SIZE THEN st
  ELSE Kernel(KernelOne(st, i % GPU_GRP_SIZE), i + 1)

\* MetalBackend::readDP: the count clamped to maxFound and a copy of dp_items
ReadCount(count) == IF count > kMaxFound THEN kMaxFound ELSE count
ReadRing(ring, items) ==
  [i \in 1..Len(ring) |-> IF i <= Len(items) THEN items[i] ELSE ring[i]]

\* the host decodes item i at dpRing.data() + i * ITEM_SIZE32 + 1
DecodeItem(ring, i) ==
  LET w(j) == ring[i * kDpWords + 1 + j + 1]
      x    == w(0) + LimbBase * w(1) + LimbBase * LimbBase * w(2)
                + LimbBase * LimbBase * LimbBase * w(3)
      d    == w(4) + GpuDistLimb * w(5)
      kIdx == w(6)
  IN  [x |-> x,
       d |-> IF kIdx % 2 = WILD THEN ModSubK1order(d, wildOffset) ELSE d,
       kIdx |-> kIdx]

\* NB_RUN steps of the CPU step function on one kangaroo
RECURSIVE CPUSteps(_, _)
CPUSteps(k, n) ==
  IF n = 0 THEN k ELSE CPUSteps(CPUStep(k.x, k.y, k.d, k.sc), n - 1)

-----------------------------------------------------------------------------
(* Specification SpecGpu: the Metal path of SolveKeyGPU (not in client mode).
   px/py/distance/symClass hold the same herd advanced by the CPU step
   function, the reference the kernel is compared with. *)

Zeros(n) == [i \in 1..n |-> 0]

InitGpu ==
  /\ InitConfig /\ InitShared /\ NoHerd /\ NoResolverCall /\ NoGpu /\ NoAux
  /\ NoThreads
  /\ privKey = rangeStart + 5
  /\ dpSize \in DpSizes
  /\ pc = "gpuCreate"

\* lines 564-640: CreateHerd(GPU_GRP_SIZE,..,TAME), PackKangaroo, allocate,
\* uploadKangaroos, resetDPCount
GpuCreateKangaroos ==
  /\ pc = "gpuCreate"
  /\ \E r \in [GpuHerd -> RandSet] :
       LET k(g) == CreateHerd(r[g], KType(g))
       IN  /\ px' = [g \in GpuHerd |-> k(g).x]
           /\ py' = [g \in GpuHerd |-> k(g).y]
           /\ distance' = [g \in GpuHerd |-> k(g).d]
           /\ gpuKang' = [g \in GpuHerd |->
                            PackKangaroo(k(g).x, k(g).y, k(g).d, g)]
  /\ symClass' = [g \in GpuHerd |-> 0]
  /\ dpCount' = 0
  /\ dpItems' = Zeros(DpBufferWords)
  /\ dpRing' = Zeros(DpRingWords)
  /\ pc' = "gpuRun"
  /\ UNCHANGED <<ConfigVars, hashTable, endOfSearch, output,
                 collisionInSameHerd, nbStep, ccArgs, ccRet, AuxVars, gIdx, outCount,
                 gpuFound, lastDPs, nbDispatch, ThreadVars>>

\* lines 659-693: runOnce, readDP and the decoding of the reported items
GpuDispatch ==
  /\ pc = "gpuRun"
  /\ ~endOfSearch
  /\ nbDispatch < MaxDispatch
  /\ LET st == Kernel([kang |-> gpuKang, count |-> dpCount, items |-> dpItems,
                       dps |-> <<>>], 0)
         n  == ReadCount(st.count)
         rg == ReadRing(dpRing, st.items)
         c(g) == CPUSteps([x |-> px[g], y |-> py[g], d |-> distance[g],
                           sc |-> symClass[g]], NB_RUN)
     IN  /\ gpuKang' = st.kang
         /\ dpCount' = st.count
         /\ dpItems' = st.items
         /\ lastDPs' = st.dps
         /\ outCount' = n
         /\ dpRing' = rg
         /\ gpuFound' = [i \in 1..n |-> DecodeItem(rg, i - 1)]
         /\ px' = [g \in GpuHerd |-> c(g).x]
         /\ py' = [g \in GpuHerd |-> c(g).y]
         /\ distance' = [g \in GpuHerd |-> c(g).d]
         /\ symClass' = [g \in GpuHerd |-> c(g).sc]
         /\ pc' = IF n > 0 THEN "gpuAdd" ELSE "gpuRun"
  /\ nbDispatch' = nbDispatch + 1
  /\ gIdx' = 0
  /\ UNCHANGED <<ConfigVars, hashTable, endOfSearch, output,
                 collisionInSameHerd, nbStep, ccArgs, ccRet, AuxVars, ThreadVars>>

\* lines 709-733: one iteration g of the AddToTable loop over gpuFound; a
\* reset writes herdSnapshot[kIdx], which is outside the herd for an index
\* that is no kangaroo (the write then lands elsewhere or stops the worker)
GpuAddFound ==
  /\ pc = "gpuAdd"
  /\ LET it == gpuFound[gIdx + 1]
         a  == AddToTable(hashTable, it.x, it.d, it.kIdx % 2, endOfSearch)
     IN  /\ hashTable' = a.table
         /\ endOfSearch' = a.eos
         /\ output' = output \o a.lines
         /\ IF a.ret
            THEN /\ UNCHANGED <<HerdVars, gpuKang, collisionInSameHerd>>
                 /\ pc' = IF gIdx + 1 < Len(gpuFound) /\ ~a.eos
                          THEN "gpuAdd" ELSE "gpuRun"
            ELSE /\ collisionInSameHerd' = collisionInSameHerd + 1
                 /\ UNCHANGED symClass
                 /\ \E r \in ResetSet :
                      LET k == CreateHerd(r, it.kIdx % 2)
                      IN  IF it.kIdx \in GpuHerd
                          THEN /\ px' = [px EXCEPT ![it.kIdx] = k.x]
                               /\ py' = [py EXCEPT ![it.kIdx] = k.y]
                               /\ distance' = [distance EXCEPT ![it.kIdx] = k.d]
                               /\ gpuKang' = [gpuKang EXCEPT ![it.kIdx] =
                                     PackKangaroo(k.x, k.y, k.d, it.kIdx)]
                               /\ pc' = IF gIdx + 1 < Len(gpuFound)
                                        THEN "gpuAdd" ELSE "gpuRun"
                          ELSE /\ UNCHANGED <<px, py, distance, gpuKang>>
                               /\ pc' \in {IF gIdx + 1 < Len(gpuFound)
                                           THEN "gpuAdd" ELSE "gpuRun",
                                           "gpuCrashed"}
  /\ gIdx' = IF pc' = "gpuAdd" THEN gIdx + 1 ELSE 0
  /\ UNCHANGED <<ConfigVars, nbStep, ccArgs, ccRet, AuxVars, dpCount, dpItems, dpRing,
                 outCount, gpuFound, lastDPs, nbDispatch, ThreadVars>>

\* lines 661-672: runOnce fails (nothing ran), or the kernel ran and readDP
\* fails, which leaves its outCount at 0; either way the worker breaks out
GpuDispatchFailed ==
  /\ pc = "gpuRun"
  /\ ~endOfSearch
  /\ nbDispatch < MaxDispatch
  /\ \/ /\ pc' = "gpuRunFailed"
        /\ UNCHANGED <<HerdVars, gpuKang, dpCount, dpItems, outCount>>
     \/ LET st == Kernel([kang |-> gpuKang, count |-> dpCount,
                          items |-> dpItems, dps |-> <<>>], 0)
            c(g) == CPUSteps([x |-> px[g], y |-> py[g], d |-> distance[g],
                              sc |-> symClass[g]], NB_RUN)
        IN  /\ gpuKang' = st.kang
            /\ dpCount' = st.count
            /\ dpItems' = st.items
            /\ outCount' = 0
            /\ px' = [g \in GpuHerd |-> c(g).x]
            /\ py' = [g \in GpuHerd |-> c(g).y]
            /\ distance' = [g \in GpuHerd |-> c(g).d]
            /\ symClass' = [g \in GpuHerd |-> c(g).sc]
            /\ pc' = "gpuReadFailed"
  /\ UNCHANGED <<ConfigVars, hashTable, endOfSearch, output,
                 collisionInSameHerd, nbStep, ccArgs, ccRet, AuxVars, gIdx, dpRing,
                 gpuFound, lastDPs, nbDispatch, ThreadVars>>

NextGpu ==
  GpuCreateKangaroos \/ GpuDispatch \/ GpuDispatchFailed \/ GpuAddFound

SpecGpu == InitGpu /\ [][NextGpu]_vars

-----------------------------------------------------------------------------
(* Properties of the GPU path *)

AfterDispatch == pc \in {"gpuRun", "gpuAdd"} /\ nbDispatch > 0

\* kangaroo g on the device is the kangaroo the CPU step function produces
SameKangaroo(g) ==
  UnpackKangaroo(gpuKang[g], g) = [x |-> px[g], y |-> py[g], d |-> distance[g]]

\* C9: CPU/GPU parity.  For the same herd and jump table, with and without
\* symmetry, every kangaroo advanced by the kernel (jump index, affine update,
\* distance update, symmetry switch) equals the kangaroo advanced by the step
\* function of SolveKeyCPU: a dispatch started from equal kangaroos ends with
\* equal kangaroos.
C9_Parity ==
  [][(pc = "gpuRun" /\ nbDispatch' = nbDispatch + 1) =>
        \A g \in GpuHerd : SameKangaroo(g) => SameKangaroo(g)']_vars

\* item i (from 0) of the ring copy, in the layout StoreDpItem writes
RingItem(ring, i) == [j \in 1..kDpWords |-> ring[i * kDpWords + j]]

\* C10: readDP drains the ring.  The items readDP reports after a dispatch
\* are exactly the distinguished points met by that dispatch (at most
\* maxFound of them) and none of an earlier dispatch.
C10_ReadDrains ==
  AfterDispatch =>
     /\ outCount = ReadCount(Len(lastDPs))
     /\ \A i \in 1..outCount : RingItem(dpRing, i - 1) = lastDPs[i]


(***************************************************************************)
(* Threads: Run launches nbCPUThread SolveKeyCPU workers and nbGPUThread   *)
(* SolveKeyGPU workers, then calls Process, which requests periodic saves  *)
(* (SaveWork) whose files are written by a RunAsyncSave thread.  The walk  *)
(* and the table contents are abstracted: a step and an AddToTable are     *)
(* positions of the worker, and the outcome of a collision check is an     *)
(* input.                                                                  *)
(***************************************************************************)
nbCPUThread == 1
nbGPUThread == 1
MaxSaves == 2

Main == 0
CpuThreads == 1..nbCPUThread
GpuThreads == (nbCPUThread + 1)..(nbCPUThread + nbGPUThread)
Workers == CpuThreads \cup GpuThreads
FlushIds == 1..MaxSaves

isAlive == \E w \in Workers : thIsRunning[w]
hasStarted == \A w \in Workers : thHasStarted[w]
isWaiting == \A w \in Workers : thIsWaiting[w]

FixedConfig ==
  /\ useSymmetry = FALSE
  /\ rangeStart = 0
  /\ rangeEnd = MaxRangeWidth
  /\ privKey = 1
  /\ keyToSearch = InitSearchKey(FALSE, 0, MaxRangeWidth, ComputePublicKey(1))
  /\ jumpDistance = <<2, 7, 5, 2>>
  /\ dpSize = 0

\* Run: endOfSearch = false, isRunning = true for every launched thread
InitThreads ==
  /\ FixedConfig /\ InitShared /\ NoHerd /\ NoResolverCall /\ NoGpu
  /\ addLog = <<>> /\ NoJump /\ NoFn
  /\ clientMode = FALSE /\ saveKangaroo \in BOOLEAN
  /\ splitWorkfile \in BOOLEAN
  /\ payload = <<>> /\ savedTable = {} /\ disk = NoFile /\ loaded = <<>>
  /\ pc = "threads"
  /\ wpc = [w \in Workers |-> "start"]
  /\ thIsRunning = [w \in Workers |-> TRUE]
  /\ thHasStarted = [w \in Workers |-> FALSE]
  /\ thIsWaiting = [w \in Workers |-> FALSE]
  /\ thPending = [w \in Workers |-> FALSE]
  /\ saveMutex = NoThread /\ ghMutex = NoThread
  /\ saveRequest = FALSE
  /\ asyncSaveRunning = FALSE
  /\ asyncSaveThread = 0
  /\ flushState = [f \in FlushIds |-> "none"]
  /\ opc = "waitStart"
  /\ nbSave = 0

DataVars == <<ConfigVars, HerdVars, GpuVars, hashTable, output,
              collisionInSameHerd, nbStep, ccArgs, ccRet, AuxVars, pc, gIdx>>
FlagVars == <<thIsRunning, thHasStarted, thIsWaiting, thPending>>
MutexVars == <<saveMutex, ghMutex>>
SaveVars == <<saveRequest, asyncSaveRunning, asyncSaveThread, flushState,
              nbSave>>

\* what the threads leave alone apart from the table and its snapshots
TableVars == <<hashTable, addLog, payload>>
RestVars == <<ConfigVars, HerdVars, GpuVars, output, collisionInSameHerd,
              nbStep, ccArgs, ccRet, JumpVars, FnVars, clientMode,
              splitWorkfile, saveKangaroo, savedTable, disk, loaded, pc,
              gIdx>>

\* the distinguished points a search meets before the model stops adding
MaxThreadDps == 2
NewDp == [x |-> Len(addLog) + 1, d |-> Len(addLog) + 1]

\* SolveKeyCPU prologue: herd created, hasStarted = true
CpuStart(w) ==
  /\ w \in CpuThreads /\ wpc[w] = "start"
  /\ thHasStarted' = [thHasStarted EXCEPT ![w] = TRUE]
  /\ wpc' = [wpc EXCEPT ![w] = "loop"]
  /\ UNCHANGED <<DataVars, endOfSearch, thIsRunning, thIsWaiting, thPending,
                 MutexVars, SaveVars, opc>>

\* SolveKeyGPU prologue, every stage succeeds
GpuStart(w) ==
  /\ w \in GpuThreads /\ wpc[w] = "start"
  /\ thHasStarted' = [thHasStarted EXCEPT ![w] = TRUE]
  /\ wpc' = [wpc EXCEPT ![w] = "loop"]
  /\ UNCHANGED <<DataVars, endOfSearch, thIsRunning, thIsWaiting, thPending,
                 MutexVars, SaveVars, opc>>

\* SolveKeyGPU prologue: CreateBackend, init, allocate or an upload fails:
\* "ph->hasStarted = true; return;" leaves isRunning as Run set it
GpuStartFailed(w) ==
  /\ w \in GpuThreads /\ wpc[w] = "start"
  /\ thHasStarted' = [thHasStarted EXCEPT ![w] = TRUE]
  /\ wpc' = [wpc EXCEPT ![w] = "done"]
  /\ UNCHANGED <<DataVars, endOfSearch, thIsRunning, thIsWaiting, thPending,
                 MutexVars, SaveVars, opc>>

\* while(!endOfSearch)
WorkerLoop(w) ==
  /\ wpc[w] = "loop"
  /\ wpc' = [wpc EXCEPT ![w] = IF endOfSearch THEN "exit" ELSE "walk"]
  /\ UNCHANGED <<DataVars, endOfSearch, FlagVars, MutexVars, SaveVars, opc>>

\* the random walk of the group (CPU), or runOnce + readDP (GPU): every
\* kangaroo of the group has moved one more step
WorkerStep(w) ==
  /\ wpc[w] = "walk"
  /\ wpc' = [wpc EXCEPT ![w] = "dp"]
  /\ thPending' = [thPending EXCEPT ![w] = FALSE]
  /\ UNCHANGED <<DataVars, endOfSearch, thIsRunning, thHasStarted,
                 thIsWaiting, MutexVars, SaveVars, opc>>

\* runOnce or readDP fails: break out of the loop
GpuStepFailed(w) ==
  /\ w \in GpuThreads /\ wpc[w] = "walk"
  /\ wpc' = [wpc EXCEPT ![w] = "exit"]
  /\ UNCHANGED <<DataVars, endOfSearch, FlagVars, MutexVars, SaveVars, opc>>

\* no distinguished point in this iteration
WorkerNoDP(w) ==
  /\ wpc[w] = "dp"
  /\ wpc' = [wpc EXCEPT ![w] = "saveChk"]
  /\ UNCHANGED <<DataVars, endOfSearch, FlagVars, MutexVars, SaveVars, opc>>

\* for(g = 0; g < CPU_GRP_SIZE && !endOfSearch; g++): the test of the loop
\* is made without ghMutex; when it finds endOfSearch set the loop is left
\* and the distinguished points of the kangaroos from g on are passed over
CpuDpLoopLeft(w) ==
  /\ w \in CpuThreads /\ wpc[w] = "dp" /\ endOfSearch
  /\ wpc' = [wpc EXCEPT ![w] = "saveChk"]
  /\ thPending' = [thPending EXCEPT ![w] = TRUE]
  /\ UNCHANGED <<DataVars, endOfSearch, thIsRunning, thHasStarted,
                 thIsWaiting, MutexVars, SaveVars, opc>>

\* a distinguished point in this iteration: LOCK(ghMutex);
\* if(!endOfSearch) AddToTable(...), else the point is passed over
WorkerLock(w) ==
  /\ wpc[w] = "dp" /\ ghMutex = NoThread
  /\ ghMutex' = w
  /\ wpc' = [wpc EXCEPT ![w] = IF endOfSearch THEN "unlock" ELSE "add"]
  /\ thPending' = [thPending EXCEPT ![w] = endOfSearch]
  /\ UNCHANGED <<DataVars, endOfSearch, thIsRunning, thHasStarted,
                 thIsWaiting, saveMutex, SaveVars, opc>>

\* AddToTable: ADD_OK stores the point; a duplicate or a collision inside
\* a herd stores nothing; no collision leaves endOfSearch alone; a collision
\* makes CollisionCheck assign it the result of the CheckKey chain
WorkerAdd(w) ==
  /\ wpc[w] = "add"
  /\ \/ /\ Len(addLog) < MaxThreadDps
        /\ hashTable' = hashTable \cup {NewDp}
        /\ addLog' = Append(addLog, NewDp)
        /\ UNCHANGED <<endOfSearch, payload>>
     \/ UNCHANGED <<endOfSearch, TableVars>>
     \/ /\ \E solved \in BOOLEAN : endOfSearch' = solved
        /\ UNCHANGED TableVars
  /\ wpc' = [wpc EXCEPT ![w] = "unlock"]
  /\ UNCHANGED <<RestVars, FlagVars, MutexVars, SaveVars, opc>>

\* UNLOCK(ghMutex)
WorkerUnlock(w) ==
  /\ wpc[w] = "unlock"
  /\ ghMutex' = NoThread
  /\ wpc' = [wpc EXCEPT ![w] = "saveChk"]
  /\ UNCHANGED <<DataVars, endOfSearch, FlagVars, saveMutex, SaveVars, opc>>

\* if(saveRequest && !endOfSearch) { ph->isWaiting = true; LOCK(saveMutex)
WorkerSaveCheck(w) ==
  /\ wpc[w] = "saveChk"
  /\ IF saveRequest /\ ~endOfSearch
       THEN /\ thIsWaiting' = [thIsWaiting EXCEPT ![w] = TRUE]
            /\ wpc' = [wpc EXCEPT ![w] = "waitSave"]
       ELSE /\ wpc' = [wpc EXCEPT ![w] = "loop"]
            /\ UNCHANGED thIsWaiting
  /\ UNCHANGED <<DataVars, endOfSearch, thIsRunning, thHasStarted, thPending,
                 MutexVars, SaveVars, opc>>

\* LOCK(saveMutex) obtained; ph->isWaiting = false; UNLOCK(saveMutex)
WorkerSaveAck(w) ==
  /\ wpc[w] = "waitSave" /\ saveMutex = NoThread
  /\ thIsWaiting' = [thIsWaiting EXCEPT ![w] = FALSE]
  /\ wpc' = [wpc EXCEPT ![w] = "loop"]
  /\ UNCHANGED <<DataVars, endOfSearch, thIsRunning, thHasStarted, thPending,
                 MutexVars, SaveVars, opc>>

\* after the loop: arrays freed, ph->isRunning = false
WorkerExit(w) ==
  /\ wpc[w] = "exit"
  /\ thIsRunning' = [thIsRunning EXCEPT ![w] = FALSE]
  /\ wpc' = [wpc EXCEPT ![w] = "done"]
  /\ UNCHANGED <<DataVars, endOfSearch, thHasStarted, thIsWaiting, thPending,
                 MutexVars, SaveVars, opc>>

WorkerNext(w) ==
  \/ CpuStart(w) \/ GpuStart(w) \/ GpuStartFailed(w) \/ WorkerLoop(w)
  \/ WorkerStep(w) \/ GpuStepFailed(w) \/ WorkerNoDP(w) \/ CpuDpLoopLeft(w)
  \/ WorkerLock(w)
  \/ WorkerAdd(w) \/ WorkerUnlock(w) \/ WorkerSaveCheck(w)
  \/ WorkerSaveAck(w) \/ WorkerExit(w)

\* Process: while(!hasStarted(params)) SleepMillis(5)
ProcessWaitStart ==
  /\ opc = "waitStart" /\ hasStarted
  /\ opc' = "alive"
  /\ UNCHANGED <<DataVars, endOfSearch, wpc, FlagVars, MutexVars, SaveVars>>

\* Process: while(isAlive(params))
ProcessLoop ==
  /\ opc = "alive"
  /\ opc' = IF isAlive THEN "tick" ELSE "finalWait"
  /\ UNCHANGED <<DataVars, endOfSearch, wpc, FlagVars, MutexVars, SaveVars>>

\* Process, save request: no work file, search ended, period not elapsed,
\* or the previous flush still running: no SaveWork in this round
ProcessNoSave ==
  /\ opc = "tick"
  /\ opc' = "abortChk"
  /\ UNCHANGED <<DataVars, endOfSearch, wpc, FlagVars, MutexVars, SaveVars>>

\* Process, save request: period elapsed, !endOfSearch and
\* !asyncSaveRunning.load(): SaveWork is called
ProcessSave ==
  /\ opc = "tick" /\ ~endOfSearch /\ ~asyncSaveRunning
  /\ nbSave < MaxSaves
  /\ opc' = "saveEntry"
  /\ UNCHANGED <<DataVars, endOfSearch, wpc, FlagVars, MutexVars, SaveVars>>

\* SaveWork: if(asyncSaveRunning.load()) return;
SaveWorkEntry ==
  /\ opc = "saveEntry"
  /\ opc' = IF asyncSaveRunning THEN "abortChk" ELSE "saveJoin"
  /\ UNCHANGED <<DataVars, endOfSearch, wpc, FlagVars, MutexVars, SaveVars>>

\* WaitForAsyncSave: the handle is moved out and joined when joinable: the
\* call returns once that thread has returned; asyncSaveRunning = false
WaitForAsyncSaveNoJoin(next) ==
  /\ asyncSaveRunning' = FALSE
  /\ opc' = next
  /\ UNCHANGED <<DataVars, endOfSearch, wpc, FlagVars, MutexVars, saveRequest,
                 asyncSaveThread, flushState, nbSave>>

WaitForAsyncSave(next) ==
  /\ asyncSaveThread # 0 => flushState[asyncSaveThread] = "done"
  /\ asyncSaveThread' = 0
  /\ asyncSaveRunning' = FALSE
  /\ opc' = next
  /\ UNCHANGED <<DataVars, endOfSearch, wpc, FlagVars, MutexVars, saveRequest,
                 flushState, nbSave>>

\* SaveWork: WaitForAsyncSave();
SaveWorkJoin ==
  /\ opc = "saveJoin"
  /\ WaitForAsyncSave("saveLock")

\* SaveWork: LOCK(saveMutex); saveRequest = true;
SaveWorkLock ==
  /\ opc = "saveLock" /\ saveMutex = NoThread
  /\ saveMutex' = Main
  /\ saveRequest' = TRUE
  /\ opc' = "saveAck"
  /\ UNCHANGED <<DataVars, endOfSearch, wpc, FlagVars, ghMutex,
                 asyncSaveRunning, asyncSaveThread, flushState, nbSave>>

\* SaveWork: while(!isWaiting(threads) && isAlive(threads) && !endOfSearch)
AckWaitOver == isWaiting \/ ~isAlive \/ endOfSearch

SaveWorkAckWait ==
  /\ opc = "saveAck" /\ AckWaitOver
  /\ opc' = "captureTable"
  /\ UNCHANGED <<DataVars, endOfSearch, wpc, FlagVars, MutexVars, SaveVars>>

\* SaveWork: the hash table is copied into the payload
SaveWorkCaptureTable ==
  /\ opc = "captureTable"
  /\ payload' = Append(payload, hashTable)
  /\ opc' = "captureHerd"
  /\ UNCHANGED <<RestVars, hashTable, addLog, endOfSearch, wpc, FlagVars,
                 MutexVars, SaveVars>>

\* if(splitWorkfile && (hasBinaryTarget || hasTextTarget)) hashTable.Reset()
SplitResetKeep(table) == table
SplitReset(table) == {}

\* SaveWork: the herds are copied; saveRequest = false; the table is reset
\* in split mode; UNLOCK(saveMutex)
SaveWorkCaptureHerd ==
  /\ opc = "captureHerd"
  /\ saveRequest' = FALSE
  /\ hashTable' = IF splitWorkfile THEN SplitReset(hashTable) ELSE hashTable
  /\ saveMutex' = NoThread
  /\ opc' = "spawn"
  /\ UNCHANGED <<RestVars, addLog, payload, endOfSearch, wpc, FlagVars,
                 ghMutex, asyncSaveRunning, asyncSaveThread, flushState,
                 nbSave>>

\* SaveWork: asyncSaveRunning = true; asyncSaveThread = std::thread(...).
\* Assigning to a joinable std::thread calls std::terminate.
SaveWorkSpawn ==
  /\ opc = "spawn"
  /\ asyncSaveRunning' = TRUE
  /\ nbSave' = nbSave + 1
  /\ flushState' = [flushState EXCEPT ![nbSave + 1] = "writing"]
  /\ asyncSaveThread' = nbSave + 1
  /\ opc' = IF asyncSaveThread # 0 THEN "terminated" ELSE "abortChk"
  /\ UNCHANGED <<DataVars, endOfSearch, wpc, FlagVars, MutexVars, saveRequest>>

\* Process, abort: maxStep > 0 and the count exceeds it: endOfSearch = true
\* and "Aborted !" is printed, then SleepMillis(1000)
ProcessAbort ==
  /\ opc = "abortChk"
  /\ \/ endOfSearch' = TRUE /\ opc' = "aborted"
     \/ UNCHANGED endOfSearch /\ opc' = "alive"
  /\ UNCHANGED <<DataVars, wpc, FlagVars, MutexVars, SaveVars>>

\* Process, abort: Timer::SleepMillis(1000) is over, next round of the loop
ProcessAbortSleep ==
  /\ opc = "aborted"
  /\ opc' = "alive"
  /\ UNCHANGED <<DataVars, endOfSearch, wpc, FlagVars, MutexVars, SaveVars>>

\* Process: WaitForAsyncSave() after the loop, then return
ProcessReturn ==
  /\ opc = "finalWait"
  /\ WaitForAsyncSave("returned")

\* RunAsyncSave: files written, asyncSaveRunning = false
RunAsyncSave(f) ==
  /\ flushState[f] = "writing"
  /\ asyncSaveRunning' = FALSE
  /\ flushState' = [flushState EXCEPT ![f] = "ending"]
  /\ UNCHANGED <<DataVars, endOfSearch, wpc, FlagVars, MutexVars, saveRequest,
                 asyncSaveThread, nbSave, opc>>

\* the RunAsyncSave thread returns
FlushReturn(f) ==
  /\ flushState[f] = "ending"
  /\ flushState' = [flushState EXCEPT ![f] = "done"]
  /\ UNCHANGED <<DataVars, endOfSearch, wpc, FlagVars, MutexVars, saveRequest,
                 asyncSaveRunning, asyncSaveThread, nbSave, opc>>

MainNext ==
  \/ ProcessWaitStart \/ ProcessLoop \/ ProcessNoSave \/ ProcessSave
  \/ SaveWorkEntry \/ SaveWorkJoin \/ SaveWorkLock \/ SaveWorkAckWait
  \/ SaveWorkCaptureTable \/ SaveWorkCaptureHerd \/ SaveWorkSpawn
  \/ ProcessAbort \/ ProcessAbortSleep \/ ProcessReturn

FlushNext == \E f \in FlushIds : RunAsyncSave(f) \/ FlushReturn(f)

NextThreads == (\E w \in Workers : WorkerNext(w)) \/ MainNext \/ FlushNext

SpecThreads == InitThreads /\ [][NextThreads]_vars

\* the scheduler runs every thread that can take a step
FairThreads ==
  /\ SpecThreads
  /\ \A w \in Workers : WF_vars(WorkerNext(w))
  /\ WF_vars(MainNext)
  /\ WF_vars(FlushNext)


(***************************************************************************)
(* Properties of the threads.                                              *)
(***************************************************************************)
Capturing == opc \in {"captureTable", "captureHerd"}

Stepping(w) == wpc[w] \in {"walk", "add"}

\* C4: while SaveWork copies the hash table and the herds, no worker is
\* executing a walk step or an Add, and every live worker is blocked on
\* saveMutex with isWaiting set.
C4_SnapshotBarrier ==
  Capturing =>
    \A w \in Workers :
       /\ ~Stepping(w)
       /\ thIsRunning[w] => (wpc[w] = "waitSave" /\ thIsWaiting[w])

\* C5: a thread that adds to the hash table or copies it for a snapshot
\* holds ghMutex.
C5_HashMutexHeld ==
  /\ \A w \in Workers : wpc[w] = "add" => ghMutex = w
  /\ opc = "captureTable" => ghMutex = Main

InFlight == {f \in FlushIds : flushState[f] \in {"writing", "ending"}}

InSaveWork ==
  opc \in {"saveLock", "saveAck", "captureTable", "captureHerd", "spawn"}

\* C6: at most one flush thread is in flight; SaveWork captures a snapshot
\* and starts a thread only when no flush is in flight, and a thread is
\* stored in asyncSaveThread only when the previous one has been joined.
C6_SingleFlush ==
  /\ Cardinality(InFlight) <= 1
  /\ InSaveWork => (InFlight = {} /\ ~asyncSaveRunning /\ asyncSaveThread = 0)
  /\ opc # "terminated"

C6_Witness ==
  /\ asyncSaveThread = 2
  /\ flushState[1] = "done"
  /\ flushState[2] = "writing"

\* C7: once endOfSearch is true every worker terminates and isAlive becomes
\* false, and Process returns only when no flush thread is left unjoined.
C7_Cancellation ==
  /\ endOfSearch ~> (~isAlive /\ \A w \in Workers : wpc[w] = "done")
  /\ [](opc = "returned" => (asyncSaveThread = 0 /\ InFlight = {}))

\* C8: the acknowledgement wait of SaveWork is eventually left and
\* saveMutex released, so that no worker stays blocked on it.
C8_AckWaitTerminates ==
  /\ (opc = "saveAck") ~> (saveMutex = NoThread)
  /\ \A w \in Workers : (wpc[w] = "waitSave") ~> (wpc[w] # "waitSave")

-----------------------------------------------------------------------------
(* Further properties of the GPU path *)

\* C11: ring overflow is safe.  Whatever the number of distinguished points
\* of a dispatch, the kernel writes items only at positions below max_found,
\* so never outside the dpItems buffer; a point met at a position below
\* max_found is in the buffer and the others are dropped; readDP reports at
\* most maxFound items, and 0 when it fails.
C11_RingOverflowSafe ==
  /\ pc \in {"gpuRun", "gpuAdd", "gpuReadFailed", "gpuRunFailed"} =>
        Len(dpItems) = DpBufferWords
  /\ AfterDispatch =>
        /\ outCount <= kMaxFound
        /\ \A j \in 1..Len(lastDPs) :
              LET pos == dpCount - Len(lastDPs) + j - 1
              IN  pos < kMaxFound => RingItem(dpItems, pos) = lastDPs[j]
  /\ pc = "gpuReadFailed" => outCount = 0

C11_Witness ==
  /\ AfterDispatch
  /\ dpCount > kMaxFound
  /\ outCount = kMaxFound
  /\ Len(lastDPs) > 0

-----------------------------------------------------------------------------
(* Specification SpecTable: AddToTable applied to a sequence of
   distinguished points, each call recorded in addLog with the status
   HashTable::Add gave and the value AddToTable returned. *)

MaxAdds == 3

TableXs == {CurveX[2], CurveX[3], CurveX[6]}
TableDists == {1, 2}

InitTable ==
  /\ FixedConfig /\ InitShared /\ NoHerd /\ NoResolverCall /\ NoGpu
  /\ NoThreads /\ NoSave /\ NoJump /\ NoFn
  /\ addLog = <<>>
  /\ pc = "table"

\* one AddToTable call, made as the workers make it: if(!endOfSearch)
TableAdd ==
  /\ pc = "table"
  /\ ~endOfSearch
  /\ Len(addLog) < MaxAdds
  /\ \E x \in TableXs, d \in TableDists, kType \in {TAME, WILD} :
       LET h == HashAdd(hashTable, x, d, kType)
           a == AddToTable(hashTable, x, d, kType, endOfSearch)
       IN  /\ hashTable' = a.table
           /\ endOfSearch' = a.eos
           /\ output' = output \o a.lines
           /\ addLog' = Append(addLog, [x |-> x, d |-> d, kType |-> kType,
                                        status |-> h.status, ret |-> a.ret])
  /\ UNCHANGED <<ConfigVars, HerdVars, GpuVars, ThreadVars, FileVars,
                 JumpVars, FnVars, collisionInSameHerd, nbStep, ccArgs, ccRet, pc, gIdx>>

NextTable == TableAdd

SpecTable == InitTable /\ [][NextTable]_vars

\* calls i and j of the log added the same distinguished point
SameDP(i, j) ==
  /\ addLog[i].x = addLog[j].x
  /\ addLog[i].d = addLog[j].d
  /\ addLog[i].kType = addLog[j].kType

\* the table entries for the point of a call: its fingerprint and its kind
EntriesFor(r) ==
  {t \in hashTable : t.x = Fingerprint(r.x) /\ t.d.kind = r.kType}

Repeated == {p \in (1..Len(addLog)) \X (1..Len(addLog)) :
               p[1] < p[2] /\ SameDP(p[1], p[2])}

-----------------------------------------------------------------------------
(* Collisions met by the walkers of SolveKeyCPU *)

\* what HashTable::Add answers for the distinguished point of kangaroo g
AddStatus(g) == HashAdd(hashTable, px[g], distance[g], KType(g))

\* kangaroo g is about to add a point that collides with an entry of the
\* other kind, and none of the checks of CollisionCheck passes
SpuriousAt(g) ==
  /\ IsDP(px[g], dpSize)
  /\ AddStatus(g).status = ADD_COLLISION
  /\ AddStatus(g).kType # KType(g)
  /\ ~CheckKeys(IF KType(g) = WILD THEN AddStatus(g).kDist ELSE distance[g],
                IF KType(g) = WILD THEN distance[g] ELSE AddStatus(g).kDist,
                0).ok


\* kangaroo g after the step is one CreateHerd makes for the kind of g
Recreated(g) ==
  \E r \in RandSet :
     LET k == CreateHerd(r, KType(g))
     IN  px[g] = k.x /\ py[g] = k.y /\ distance[g] = k.d

\* C13: spurious collision.  When a walker's distinguished point collides
\* with an entry of the other kind and none of the 8 checks passes,
\* endOfSearch is not set, the walker is re-created with its kind (the
\* return value false of CollisionCheck), counted in collisionInSameHerd,
\* nothing is printed as a key, and the loop of SolveKeyCPU goes on.
C13_SpuriousCollision ==
  [][(pc = "dp" /\ SpuriousAt(gIdx)) =>
        /\ ~endOfSearch'
        /\ \E g \in Herd : g = gIdx /\ Recreated(g)'
        /\ collisionInSameHerd' = collisionInSameHerd + 1
        /\ hashTable' = hashTable
        /\ \A i \in 1..Len(output') : output'[i].kind # "Priv"
        /\ pc' \in {"dp", "step"}]_vars

C13_Witness == pc = "dp" /\ SpuriousAt(gIdx) /\ ~endOfSearch


\* HashTable::Add finds an entry of the same kind for the point
SameKindHit(x, d, kType) ==
  LET h == HashAdd(hashTable, x, d, kType)
  IN  \/ h.status = ADD_DUPLICATE
      \/ h.status = ADD_COLLISION /\ h.kType = kType

\* the kangaroo that emitted item i of the ring: the index word the kernel
\* stored with it
EmittingIndex(i) == RingItem(dpRing, i)[kDpWords]

\* kangaroo g on the device after the step is a packed fresh kangaroo of
\* the kind of g
GpuRecreated(g) ==
  \E r \in RandSet :
     LET k == CreateHerd(r, g % 2)
     IN  gpuKang[g] = PackKangaroo(k.x, k.y, k.d, g)

\* C14: same-herd collision.  When the table answers the distinguished
\* point of walker g with an entry of the same kind, no solution is
\* surfaced (endOfSearch and the output are unchanged) and walker g is
\* replaced by a fresh walker of kind g mod 2, in SolveKeyCPU and in
\* SolveKeyGPU.
C14_SameHerdCollision ==
  [][/\ (pc = "dp" /\ IsDP(px[gIdx], dpSize)
           /\ SameKindHit(px[gIdx], distance[gIdx], KType(gIdx))) =>
          /\ endOfSearch' = endOfSearch /\ output' = output
          /\ \E g \in Herd : g = gIdx /\ Recreated(g)'
     /\ (pc = "gpuAdd"
           /\ SameKindHit(gpuFound[gIdx + 1].x, gpuFound[gIdx + 1].d,
                          gpuFound[gIdx + 1].kIdx % 2)) =>
          /\ endOfSearch' = endOfSearch /\ output' = output
          /\ \E g \in GpuHerd : g = EmittingIndex(gIdx) /\ GpuRecreated(g)'
    ]_vars

-----------------------------------------------------------------------------
(* The work file. A file is a sequence of bytes: every fwrite appends the
   little-endian bytes of its argument, every fread consumes as many bytes
   as it asks for. The sizes are the byte counts passed to fwrite / fread. *)

ByteBase == 256
U32 == 4
U64 == 8
F64 == 8
Int256 == 32

HEADW == 1
HEADK == 2
HASH_SIZE == 2

\* values of 2^24 and above are kept as 2^24 + their low three bytes
Huge == Pow2(24)

\* fwrite(&v, n, 1, f)
Bytes(v, n) ==
  [i \in 1..n |-> IF i > 3 THEN 0 ELSE (v \div Pow2(8 * (i - 1))) % ByteBase]

FromBytes(b) ==
  LET at(i) == IF i <= Len(b) THEN b[i] ELSE 0
  IN  at(1) + ByteBase * at(2) + ByteBase * ByteBase * at(3)
      + (IF \E i \in 4..Len(b) : b[i] # 0 THEN Huge ELSE 0)

\* fread(&v, n, 1, f) at offset pos; bytes past the end read as zero
Take(bytes, pos, n) ==
  [i \in 1..n |-> IF pos + i <= Len(bytes) THEN bytes[pos + i] ELSE 0]
Field(bytes, pos, n) == FromBytes(Take(bytes, pos, n))

\* the key being searched, keysToSearch[keyIdx]
SearchedKey == ComputePublicKey(privKey)

\* Secp256K1::EC
EC(p) ==
  LET x == p.x % FieldP
      y == p.y % FieldP
  IN  (y * y) % FieldP = (((x * x) % FieldP) * x + 7) % FieldP

(* Kangaroo::SaveHeader *)
SaveHeader(type, totalCount, totalTime) ==
  Bytes(type, U32) \o Bytes(0, U32) \o
  (IF type = HEADW
   THEN Bytes(dpSize, U32) \o Bytes(rangeStart, Int256) \o
        Bytes(rangeEnd, Int256) \o Bytes(SearchedKey.x, Int256) \o
        Bytes(SearchedKey.y, Int256) \o Bytes(totalCount, U64) \o
        Bytes(totalTime, F64)
   ELSE <<>>)

(* The hash table as HASH_SIZE buckets. An entry is kept as the 256-bit x
   fingerprint, the 256-bit distance carrying its sign and kind tags, and
   the kind. *)
BucketOf(x) == x % HASH_SIZE
TaggedD(d) == d.mag + Pow2(DistMagBits) * d.sign + Pow2(DistMagBits + 1) * d.kind
UntagD(v) ==
  [sign |-> (v \div Pow2(DistMagBits)) % 2,
   mag  |-> v % Pow2(DistMagBits),
   kind |-> (v \div Pow2(DistMagBits + 1)) % 2]

RECURSIVE SortByX(_)
SortByX(S) ==
  IF S = {} THEN <<>>
  ELSE LET m == CHOOSE e \in S : \A f \in S : e.x <= f.x
       IN  <<m>> \o SortByX(S \ {m})

\* SaveWork, the copy of the table into payload->tableSnapshot
TableSnapshot(table) ==
  [k \in 1..HASH_SIZE |->
     LET items == SortByX({e \in table : BucketOf(e.x) = k - 1})
     IN  [nbItem  |-> Len(items),
          maxItem |-> Len(items),
          entries |-> [i \in 1..Len(items) |->
                         [x |-> items[i].x, d |-> TaggedD(items[i].d),
                          kType |-> items[i].d.kind]]]]

RECURSIVE EntryBytes(_)
EntryBytes(entries) ==
  IF entries = <<>> THEN <<>>
  ELSE Bytes(Head(entries).x, Int256) \o Bytes(Head(entries).d, Int256) \o
       Bytes(Head(entries).kType, U32) \o EntryBytes(Tail(entries))

(* WriteHashTableSnapshot *)
RECURSIVE WriteHashTableSnapshot(_)
WriteHashTableSnapshot(snapshot) ==
  IF snapshot = <<>> THEN <<>>
  ELSE Bytes(Head(snapshot).nbItem, U32) \o Bytes(Head(snapshot).maxItem, U32)
       \o EntryBytes(Head(snapshot).entries)
       \o WriteHashTableSnapshot(Tail(snapshot))

RECURSIVE KangarooBytes(_, _, _)
KangarooBytes(kx, ky, kd) ==
  IF kx = <<>> THEN <<>>
  ELSE Bytes(Head(kx), Int256) \o Bytes(Head(ky), Int256) \o
       Bytes(Head(kd), Int256) \o KangarooBytes(Tail(kx), Tail(ky), Tail(kd))

(* RunAsyncSave, binary target: everything written between fopen and
   fclose *)
FlushBytes(p) ==
  SaveHeader(p.headType, p.totalCount, p.totalTime) \o
  WriteHashTableSnapshot(p.tableSnapshot) \o
  Bytes(p.totalWalk, U64) \o
  (IF p.saveKangaroo THEN KangarooBytes(p.kangarooX, p.kangarooY, p.kangarooD)
   ELSE <<>>)

(* Kangaroo::ReadHeader: the offset after the header, or no file *)
ReadHeader(bytes, type) ==
  IF Len(bytes) < U32 THEN [ok |-> FALSE, pos |-> 0]
  ELSE IF Field(bytes, 0, U32) # type THEN [ok |-> FALSE, pos |-> 0]
  ELSE [ok |-> TRUE, pos |-> U32 + U32]

(* HashTable::LoadTable: per bucket nbItem, maxItem and nbItem entries *)
EntrySize == Int256 + Int256 + U32

\* the entries that start before the end of the file
InFile(bytes, pos, nb) ==
  LET room == IF pos >= Len(bytes) THEN 0
              ELSE (Len(bytes) - pos + EntrySize - 1) \div EntrySize
  IN  IF nb < room THEN nb ELSE room

LoadEntries(bytes, pos, nb) ==
  {[x |-> Field(bytes, pos + (i - 1) * EntrySize, Int256),
    d |-> UntagD(Field(bytes, pos + (i - 1) * EntrySize + Int256, Int256))] :
     i \in 1..InFile(bytes, pos, nb)}

RECURSIVE LoadTable(_, _, _)
LoadTable(bytes, pos, h) ==
  IF h = HASH_SIZE THEN [table |-> {}, pos |-> pos]
  ELSE LET nb   == Field(bytes, pos, U32)
           body == pos + U32 + U32
           rest == LoadTable(bytes,
                             body + InFile(bytes, body, nb) * EntrySize,
                             h + 1)
       IN  [table |-> LoadEntries(bytes, body, nb) \cup rest.table,
            pos   |-> rest.pos]

\* the fields fread by LoadWork after the header, in the order read
LoadLayoutWide == <<U64, Int256, Int256, Int256, Int256, U64, F64>>
LoadLayout == <<U32, Int256, Int256, Int256, Int256, U64, F64>>

RECURSIVE Offset(_, _)
Offset(layout, k) ==
  IF k = 1 THEN 0 ELSE Offset(layout, k - 1) + layout[k - 1]
RECURSIVE Total(_)
Total(layout) == IF layout = <<>> THEN 0 ELSE Head(layout) + Total(Tail(layout))

(* Kangaroo::LoadWork; initDP is the -d option, negative when not given *)
LoadWork(bytes, initDP) ==
  IF ~clientMode
  THEN LET h    == ReadHeader(bytes, HEADW)
           f(k) == Field(bytes, h.pos + Offset(LoadLayout, k), LoadLayout[k])
           key  == Pt(f(4), f(5))
           t    == LoadTable(bytes, h.pos + Total(LoadLayout), 0)
       IN  IF ~h.ok \/ ~EC(key) THEN [ok |-> FALSE]
           ELSE [ok |-> TRUE,
                 initDPSize  |-> IF initDP < 0 THEN f(1) ELSE initDP,
                 rangeStart  |-> f(2),
                 rangeEnd    |-> f(3),
                 key         |-> key,
                 offsetCount |-> f(6),
                 offsetTime  |-> f(7),
                 table       |-> t.table,
                 nbLoadedWalk |-> Field(bytes, t.pos, U64),
                 pos         |-> t.pos + U64]
  ELSE LET h == ReadHeader(bytes, HEADK)
       IN  IF ~h.ok THEN [ok |-> FALSE]
           ELSE [ok |-> TRUE,
                 initDPSize  |-> initDP,
                 rangeStart  |-> rangeStart,
                 rangeEnd    |-> rangeEnd,
                 key         |-> SearchedKey,
                 offsetCount |-> 0,
                 offsetTime  |-> 0,
                 table       |-> {},
                 nbLoadedWalk |-> Field(bytes, h.pos, U64),
                 pos         |-> h.pos + U64]

(* Kangaroo::FetchWalks(nbWalk, x, y, d): the kangaroos read from the file *)
FetchWalks(bytes, pos, nbWalk, nbLoadedWalk) ==
  LET n == IF nbLoadedWalk < nbWalk THEN nbLoadedWalk ELSE nbWalk
  IN  [i \in 1..n |->
         [x |-> Field(bytes, pos + (i - 1) * 3 * Int256, Int256),
          y |-> Field(bytes, pos + (i - 1) * 3 * Int256 + Int256, Int256),
          d |-> Field(bytes, pos + (i - 1) * 3 * Int256 + 2 * Int256, Int256)]]

-----------------------------------------------------------------------------
(* Specification SpecSave: one snapshot of a table and a herd taken by
   SaveWork with a binary work file, flushed by RunAsyncSave, and read back
   by LoadWork and FetchWalks (FectchKangaroos). *)

SaveDistances == {2, 3}
SaveCounts == {0, 300}
SaveTimes == {5}

RECURSIVE TableOf(_)
TableOf(S) ==
  IF S = {} THEN {}
  ELSE LET d == CHOOSE e \in S : \A f \in S : e <= f
       IN  HashAdd(TableOf(S \ {d}), ComputePublicKey(d).x, d, TAME).table

InitSave ==
  /\ useSymmetry = FALSE
  /\ rangeStart \in RangeStarts
  /\ rangeEnd = rangeStart + MaxRangeWidth
  /\ privKey = rangeStart + 1
  /\ keyToSearch = InitSearchKey(FALSE, rangeStart, rangeEnd,
                                 ComputePublicKey(privKey))
  /\ jumpDistance = <<2, 7, 5, 2>>
  /\ dpSize \in DpSizes
  /\ NoResolverCall /\ NoGpu /\ NoThreads /\ NoJump /\ NoFn
  /\ endOfSearch = FALSE /\ output = <<>> /\ collisionInSameHerd = 0
  /\ addLog = <<>>
  /\ clientMode \in BOOLEAN
  /\ splitWorkfile \in BOOLEAN
  /\ saveKangaroo \in BOOLEAN
  /\ hashTable \in IF clientMode THEN {{}}
                   ELSE {TableOf(S) : S \in SUBSET SaveDistances}
  /\ \E r \in [Herd -> ResetSet] :
       LET k(g) == CreateHerd(r[g], KType(g))
       IN  /\ px = [g \in Herd |-> k(g).x]
           /\ py = [g \in Herd |-> k(g).y]
           /\ distance = [g \in Herd |-> k(g).d]
  /\ symClass = [g \in Herd |-> 0]
  /\ nbStep = 0 /\ gIdx = 0
  /\ payload = <<>> /\ savedTable = {} /\ disk = NoFile /\ loaded = <<>>
  /\ pc = "save"

SaveFrame == <<ConfigVars, HerdVars, GpuVars, ThreadVars, endOfSearch, output,
               collisionInSameHerd, nbStep, ccArgs, ccRet, gIdx, addLog,
               JumpVars, FnVars, clientMode, splitWorkfile, saveKangaroo>>

\* SaveWork: the payload is captured, then the table is reset in split mode
SaveWorkFile ==
  /\ pc = "save"
  /\ \E totalCount \in SaveCounts, totalTime \in SaveTimes :
       payload' =
         [headType      |-> IF clientMode THEN HEADK ELSE HEADW,
          totalCount    |-> totalCount,
          totalTime     |-> totalTime,
          dpBits        |-> dpSize,
          saveKangaroo  |-> saveKangaroo,
          totalWalk     |-> IF saveKangaroo THEN CPU_GRP_SIZE ELSE 0,
          tableSnapshot |-> TableSnapshot(hashTable),
          kangarooX     |-> IF saveKangaroo
                            THEN [i \in 1..CPU_GRP_SIZE |-> px[i - 1]]
                            ELSE <<>>,
          kangarooY     |-> IF saveKangaroo
                            THEN [i \in 1..CPU_GRP_SIZE |-> py[i - 1]]
                            ELSE <<>>,
          kangarooD     |-> IF saveKangaroo
                            THEN [i \in 1..CPU_GRP_SIZE |-> distance[i - 1]]
                            ELSE <<>>]
  /\ savedTable' = hashTable
  /\ hashTable' = IF splitWorkfile THEN {} ELSE hashTable
  /\ pc' = "flush"
  /\ UNCHANGED <<SaveFrame, disk, loaded>>

\* RunAsyncSave: every write succeeds
FlushDone ==
  /\ pc = "flush"
  /\ disk' = [exists |-> TRUE, bytes |-> FlushBytes(payload)]
  /\ pc' = "saved"
  /\ UNCHANGED <<SaveFrame, hashTable, payload, savedTable, loaded>>

\* RunAsyncSave: fopen returns NULL
FlushOpenFailed ==
  /\ pc = "flush"
  /\ pc' = "openFailed"
  /\ UNCHANGED <<SaveFrame, hashTable, payload, savedTable, disk, loaded>>

\* RunAsyncSave: the file is created and the writes fail from byte k on
FlushWriteFailed ==
  /\ pc = "flush"
  /\ \E k \in {0, U32, U32 + U32, Len(FlushBytes(payload)) - 1} :
       disk' = [exists |-> TRUE, bytes |-> SubSeq(FlushBytes(payload), 1, k)]
  /\ pc' = "writeFailed"
  /\ UNCHANGED <<SaveFrame, hashTable, payload, savedTable, loaded>>

\* a later run: LoadWork, then FectchKangaroos for the CPU worker
LoadWorkFile ==
  /\ pc = "saved"
  /\ \E initDP \in {0 - 1, 1} :
       LET w == LoadWork(disk.bytes, initDP)
       IN  IF ~w.ok THEN loaded' = w
           ELSE LET ks == FetchWalks(disk.bytes, w.pos, CPU_GRP_SIZE,
                                     w.nbLoadedWalk)
                IN  \E r \in [(Len(ks) + 1)..CPU_GRP_SIZE -> ResetSet] :
                      loaded' =
                        [ok |-> TRUE, initDP |-> initDP, work |-> w,
                         walks |-> ks,
                         herd |-> [i \in 1..CPU_GRP_SIZE |->
                                     IF i <= Len(ks) THEN ks[i]
                                     ELSE CreateHerd(r[i],
                                            (i - 1 - Len(ks)) % 2)]]
  /\ pc' = "loaded"
  /\ UNCHANGED <<SaveFrame, hashTable, payload, savedTable, disk>>

\* SaveHeader writes "uint32_t version = 0"
SupportedVersion == 0
FileHeads == {HEADW, HEADK, HEADK + 1}
FileVersions == {SupportedVersion, SupportedVersion + 1}

\* a file whose first two u32 are head and version
WithHeader(bytes, head, version) ==
  Bytes(head, U32) \o Bytes(version, U32)
    \o SubSeq(bytes, U32 + U32 + 1, Len(bytes))

\* a later run: LoadWork on a file with any magic and any version
LoadForeignFile ==
  /\ pc = "saved"
  /\ \E head \in FileHeads, version \in FileVersions :
       loaded' = [fileHead    |-> head,
                  fileVersion |-> version,
                  work |-> LoadWork(WithHeader(disk.bytes, head, version),
                                    0 - 1)]
  /\ pc' = "loadedForeign"
  /\ UNCHANGED <<SaveFrame, hashTable, payload, savedTable, disk>>

\* a later run: LoadWork and FectchKangaroos on a work file that holds
\* fewer kangaroos than the herd of the worker: n records are read and
\* FetchWalks fills the other slots with CreateHerd(empty, &x[n], ..., TAME)
LoadShortFile ==
  /\ pc = "saved" /\ ~clientMode /\ saveKangaroo
  /\ \E n \in 1..(CPU_GRP_SIZE - 1) :
       LET p  == [payload EXCEPT !.totalWalk = n,
                                 !.kangarooX = SubSeq(@, 1, n),
                                 !.kangarooY = SubSeq(@, 1, n),
                                 !.kangarooD = SubSeq(@, 1, n)]
           b  == FlushBytes(p)
           w  == LoadWork(b, 0 - 1)
           ks == FetchWalks(b, w.pos, CPU_GRP_SIZE, w.nbLoadedWalk)
       IN  \E r \in [(n + 1)..CPU_GRP_SIZE -> ResetSet] :
             loaded' =
               [ok |-> w.ok, initDP |-> 0 - 1, work |-> w, walks |-> ks,
                herd |-> [i \in 1..CPU_GRP_SIZE |->
                            IF i <= Len(ks) THEN ks[i]
                            ELSE CreateHerd(r[i], (i - 1 - Len(ks)) % 2)]]
  /\ pc' = "loadedShort"
  /\ UNCHANGED <<SaveFrame, hashTable, payload, savedTable, disk>>

NextSave ==
  \/ SaveWorkFile
  \/ LoadShortFile
  \/ FlushDone
  \/ FlushOpenFailed
  \/ FlushWriteFailed
  \/ LoadWorkFile
  \/ LoadForeignFile

SpecSave == InitSave /\ [][NextSave]_vars

-----------------------------------------------------------------------------
(* Properties of the snapshot and of the work file *)

SaveFailed == pc \in {"openFailed", "writeFailed"}

\* C15: a failed save never damages the live table: when the flush could not
\* open or write its file, every distinguished point that was in the live
\* table when the save was requested is still there, in every save mode
C15_FailedSaveKeepsTable == SaveFailed => savedTable \subseteq hashTable

\* C16: when a save fails after the work file was created, the partially
\* written file is removed
C16_PartialFileRemoved == pc = "writeFailed" => ~disk.exists

\* the kangaroos of the payload, as (x, y, d) triples in the order written
SavedWalks ==
  [i \in 1..Len(payload.kangarooX) |->
     [x |-> payload.kangarooX[i], y |-> payload.kangarooY[i],
      d |-> payload.kangarooD[i]]]

\* C17: work-file round trip: from a HEADW file written by SaveWork and
\* RunAsyncSave, LoadWork reads back the same dpBits (used when -d is not
\* given), rangeStart, rangeEnd, key, totalCount, totalTime and kangaroo
\* count, and FetchWalks reads back the same (x, y, d) triples in order
C17_WorkFileRoundTrip ==
  (pc = "loaded" /\ ~clientMode) =>
    /\ loaded.ok
    /\ loaded.work.initDPSize =
         (IF loaded.initDP < 0 THEN payload.dpBits ELSE loaded.initDP)
    /\ loaded.work.rangeStart = rangeStart
    /\ loaded.work.rangeEnd = rangeEnd
    /\ loaded.work.key = SearchedKey
    /\ loaded.work.offsetCount = payload.totalCount
    /\ loaded.work.offsetTime = payload.totalTime
    /\ loaded.work.nbLoadedWalk = payload.totalWalk
    /\ loaded.walks = SavedWalks

C17_Witness ==
  /\ pc = "loaded" /\ ~clientMode /\ saveKangaroo
  /\ loaded.ok /\ loaded.initDP < 0
  /\ payload.dpBits > 0 /\ payload.totalCount >= ByteBase
  /\ rangeStart > 0 /\ savedTable # {}
  /\ Len(loaded.walks) = CPU_GRP_SIZE

\* C18: the kangaroos-only file written in client mode is magic, version,
\* the u64 kangaroo count and that many (x, y, d) records, so that LoadWork
\* in client mode reads the count directly after the 8-byte header and
\* restores the same kangaroos
C18_KangarooFile ==
  /\ (pc \in {"saved", "loaded"} /\ clientMode) =>
       disk.bytes = Bytes(HEADK, U32) \o Bytes(0, U32) \o
                    Bytes(payload.totalWalk, U64) \o
                    KangarooBytes(payload.kangarooX, payload.kangarooY,
                                  payload.kangarooD)
  /\ (pc = "loaded" /\ clientMode) =>
       /\ loaded.ok
       /\ loaded.work.nbLoadedWalk = payload.totalWalk
       /\ loaded.walks = SavedWalks

-----------------------------------------------------------------------------
(* The pseudo-random generator behind rseed and Int::Rand: a linear
   congruential generator over RndBits bits. *)

RndBits == 10
JumpSeed == 1611516670
maxRetry == 3

rseed(seed) == seed % Pow2(RndBits)
RndNext(s) == (5 * s + 3) % Pow2(RndBits)
\* Int::Rand(nbit) on the generator state reached by the draw
RandValue(s, nbit) == IF nbit = 0 THEN 0 ELSE s \div Pow2(RndBits - nbit)

(* Kangaroo::CreateJumpTable *)
jumpBit(sym) ==
  LET jb == IF sym THEN rangePower \div 2 ELSE rangePower \div 2 + 1
  IN  IF jb > 128 THEN 128 ELSE jb

\* distAvg > minAvg && distAvg < maxAvg, with 2^-0.05 and 2^0.05 to five
\* decimals
InWindow(totalDist, jb) ==
  /\ 200000 * totalDist > 96594 * Pow2(jb) * NB_JUMP
  /\ 200000 * totalDist < 103526 * Pow2(jb) * NB_JUMP

IsProbablePrime(n) == n > 1 /\ \A k \in 2..(n - 1) : n % k # 0

RECURSIVE NextPrime(_)
NextPrime(n) == IF IsProbablePrime(n) THEN n ELSE NextPrime(n + 2)

JumpU(jb) == NextPrime(Pow2(jb \div 2) + 1)
JumpV(jb) == NextPrime(JumpU(jb) + 2)

\* one draw of the NB_JUMP distances, from jump i on
RECURSIVE DrawJumps(_, _, _, _)
DrawJumps(s, i, sym, jb) ==
  IF i = NB_JUMP THEN [d |-> <<>>, s |-> s]
  ELSE LET s1   == RndNext(s)
           r    == RandValue(s1, IF sym THEN jb \div 2 ELSE jb)
           m    == IF ~sym THEN r
                   ELSE IF i < NB_JUMP \div 2 THEN r * JumpU(jb)
                   ELSE r * JumpV(jb)
           rest == DrawJumps(s1, i + 1, sym, jb)
       IN  [d |-> <<IF m = 0 THEN 1 ELSE m>> \o rest.d, s |-> rest.s]

RECURSIVE SumSeq(_)
SumSeq(q) == IF q = <<>> THEN 0 ELSE Head(q) + SumSeq(Tail(q))

\* while(!ok && maxRetry > 0): the table of the last draw and whether it
\* was accepted
RECURSIVE DrawLoop(_, _, _, _)
DrawLoop(s, retry, sym, jb) ==
  LET draw == DrawJumps(s, 0, sym, jb)
      ok   == InWindow(SumSeq(draw.d), jb)
  IN  IF ok \/ retry = 1 THEN [distance |-> draw.d, ok |-> ok]
      ELSE DrawLoop(draw.s, retry - 1, sym, jb)

\* the generator state the draws start from
JumpStartUnseeded(s) == s
JumpStart(s) == rseed(JumpSeed)

\* s is the generator state when CreateJumpTable is called
CreateJumpTable(s, sym) ==
  LET t == DrawLoop(JumpStart(s), maxRetry, sym, jumpBit(sym))
  IN  [distance |-> t.distance,
       point    |-> [i \in 1..NB_JUMP |-> ComputePublicKey(t.distance[i])],
       ok       |-> t.ok]

-----------------------------------------------------------------------------
(* Specification SpecJump: Run builds the jump table and goes on to the
   search, where herds are created from the same generator; CreateJumpTable
   is called again for the next run. *)

MaxJumpCalls == 3
MaxHerdDraws == 2
JumpWidths == {MaxRangeWidth, 4 * MaxRangeWidth}
\* values of Timer::getSeed32
TimeSeeds == {0, 77, 1000}

InitJump ==
  /\ useSymmetry \in BOOLEAN
  /\ rangeStart \in RangeStarts
  /\ \E w \in JumpWidths : rangeEnd = rangeStart + w
  /\ privKey = rangeStart + 1
  /\ keyToSearch = InitSearchKey(useSymmetry, rangeStart, rangeEnd,
                                 ComputePublicKey(privKey))
  /\ jumpDistance = <<>>
  /\ dpSize = 0
  /\ InitShared /\ NoHerd /\ NoResolverCall /\ NoGpu /\ NoThreads /\ NoSave
  /\ NoFn
  /\ addLog = <<>>
  /\ \E seed \in TimeSeeds : rndState = rseed(seed)
  /\ rndDraws = 0
  /\ jumpLog = <<>>
  /\ pc = "jump"

JumpFrame == <<useSymmetry, rangeStart, rangeEnd, privKey, keyToSearch, dpSize,
               HerdVars, GpuVars, ThreadVars, FileVars, hashTable, endOfSearch,
               output, collisionInSameHerd, nbStep, ccArgs, ccRet, gIdx,
               addLog, FnVars>>

\* Run: CreateJumpTable(), then on to the search; the generator is left
\* seeded from the clock
RunCreateJumpTable ==
  /\ pc = "jump"
  /\ Len(jumpLog) < MaxJumpCalls
  /\ LET t == CreateJumpTable(rndState, useSymmetry)
     IN  /\ jumpDistance' = t.distance
         /\ jumpLog' = Append(jumpLog, [before   |-> rndState,
                                        distance |-> t.distance,
                                        point    |-> t.point,
                                        ok       |-> t.ok])
  /\ \E seed \in TimeSeeds : rndState' = rseed(seed)
  /\ pc' = "search"
  /\ UNCHANGED <<JumpFrame, rndDraws>>

\* CreateHerd: one Int::Rand
HerdDraw ==
  /\ pc = "search"
  /\ rndDraws < MaxHerdDraws
  /\ rndState' = RndNext(rndState)
  /\ rndDraws' = rndDraws + 1
  /\ UNCHANGED <<JumpFrame, jumpDistance, jumpLog, pc>>

\* the search is over and Run is entered again
RunAgain ==
  /\ pc = "search"
  /\ Len(jumpLog) < MaxJumpCalls
  /\ pc' = "jump"
  /\ UNCHANGED <<JumpFrame, jumpDistance, JumpVars>>

NextJump == RunCreateJumpTable \/ HerdDraw \/ RunAgain

SpecJump == InitJump /\ [][NextJump]_vars

\* C19: jump-table construction fails fatally when no acceptable set is
\* found: no search is run with a jump set whose mean distance missed the
\* window in every draw
C19_JumpTableBad ==
  pc = "search" => InWindow(SumSeq(jumpDistance), jumpBit(useSymmetry))

\* C20: jump-table determinism: two calls of CreateJumpTable with the same
\* rangePower and symmetry setting produce the same (distance, point) table
\* whatever the generator state before each call
C20_JumpTableDeterministic ==
  \A i, j \in 1..Len(jumpLog) :
    /\ jumpLog[i].distance = jumpLog[j].distance
    /\ jumpLog[i].point = jumpLog[j].point

C20_Witness ==
  /\ Len(jumpLog) = MaxJumpCalls
  /\ rndDraws > 0
  /\ jumpLog[1].before # jumpLog[2].before
  /\ jumpLog[2].before # jumpLog[3].before

-----------------------------------------------------------------------------
(* Helper functions checked on their own: each is applied once to arguments
   drawn at the start (fnArgs), its result kept in fnRet. *)

\* the width given to a 64-bit limb by the distinguished-point filter
DpLimbBits == 6

RECURSIVE BitAnd(_, _)
BitAnd(a, b) ==
  IF a = 0 \/ b = 0 THEN 0
  ELSE (a % 2) * (b % 2) + 2 * BitAnd(a \div 2, b \div 2)

\* ~a on a limb of w bits
BitNotId(a, w) == a
BitNot(a, w) == Pow2(w) - 1 - a

(* Kangaroo::SetDP(size) on a limb of w bits: the dpSize and dMask it
   leaves *)
SetDP(size, w) ==
  IF size = 0 THEN [dpSize |-> 0, dMask |-> 0]
  ELSE LET sz == IF size > w THEN w ELSE size
       IN  [dpSize |-> sz, dMask |-> BitNot(Pow2(w - sz) - 1, w)]

(* Kangaroo::IsDP(x) with the mask SetDP left *)
IsDPMask(x, mask) == BitAnd(x, mask) = 0

HelperFrame == <<ConfigVars, HerdVars, GpuVars, ThreadVars, FileVars,
                 JumpVars, hashTable, endOfSearch, output,
                 collisionInSameHerd, nbStep, ccArgs, ccRet, gIdx, addLog,
                 fnArgs>>

DpArgs == [fn : {"SetDP"}, size : 0..(DpLimbBits + 2),
           x : 0..(Pow2(DpLimbBits) - 1)]

CallSetDP ==
  /\ pc = "SetDP"
  /\ LET s == SetDP(fnArgs.size, DpLimbBits)
     IN  fnRet' = [dpSize |-> s.dpSize, dMask |-> s.dMask,
                   isDP |-> IsDPMask(fnArgs.x, s.dMask)]
  /\ pc' = "done"
  /\ UNCHANGED HelperFrame

\* bit i (from 0) of x
Bit(x, i) == (x \div Pow2(i)) % 2
\* the top n bits of a limb of w bits are all zero
TopBitsZero(x, n, w) == \A i \in (w - n)..(w - 1) : Bit(x, i) = 0

Did(fn) == pc = "done" /\ fnArgs.fn = fn

(* PackKangaroo followed by UnpackKangaroo *)
\* distances and offsets considered: those that leave the top bit of the
\* two device limbs free
PackDistances == 0..(GpuDistBase \div 2 - 1)
PackOffsets == {0, 1, GpuDistBase \div 4 + 1, GpuDistBase \div 2 - 1}
PackCoords == {0, 61, 100, LimbBase * LimbBase * LimbBase * LimbBase - 1}

PackArgs == [fn : {"Pack"}, px : PackCoords, py : {1, 228},
             dist : PackDistances, off : PackOffsets, index : 0..3]

CallPack ==
  /\ pc = "Pack"
  /\ LET m == PackMetalKangaroo(fnArgs.px, fnArgs.py, fnArgs.dist,
                                fnArgs.index, fnArgs.off)
     IN  fnRet' = [packed |-> m,
                   out |-> UnpackMetalKangaroo(m, fnArgs.index, fnArgs.off)]
  /\ pc' = "done"
  /\ UNCHANGED HelperFrame

(* MetalEncodeDistinguishedPoint / MetalDecodeDistinguishedPoint.  An item
   is x and dist as Ints of NB64BLOCK limbs and a 64-bit index; a limb is
   two u32 words, low word first. *)
EncWordBits == 2
NB64BLOCK == 5
EncWordBase == Pow2(EncWordBits)
LowWord(v) == v % EncWordBase
HighWord(v) == (v \div EncWordBase) % EncWordBase

MetalEncodeDistinguishedPoint(item) ==
  [w \in 0..13 |->
     IF w < 8
     THEN (IF w % 2 = 0 THEN LowWord(item.x[w \div 2])
           ELSE HighWord(item.x[w \div 2]))
     ELSE IF w < 12
     THEN (IF w % 2 = 0 THEN LowWord(item.dist[(w - 8) \div 2])
           ELSE HighWord(item.dist[(w - 8) \div 2]))
     ELSE IF w = 12 THEN LowWord(item.index)
     ELSE HighWord(item.index)]

\* the 64-bit index from its two words
IndexOfWordsSwapped(lo, hi) == lo * EncWordBase + hi
IndexOfWords(lo, hi) == hi * EncWordBase + lo

MetalDecodeDistinguishedPoint(srcWords) ==
  [x     |-> [i \in 0..(NB64BLOCK - 1) |->
                IF i < 4 THEN srcWords[2 * i] + EncWordBase * srcWords[2 * i + 1]
                ELSE 0],
   dist  |-> [i \in 0..(NB64BLOCK - 1) |->
                IF i < 2
                THEN srcWords[8 + 2 * i] + EncWordBase * srcWords[8 + 2 * i + 1]
                ELSE 0],
   index |-> IndexOfWords(srcWords[12], srcWords[13])]

EncodeArgs == [fn : {"Encode"},
               x : [0..(NB64BLOCK - 1) -> {0, 9}],
               dist : [0..(NB64BLOCK - 1) -> {0, 6}],
               index : {0, 1, 7, EncWordBase * EncWordBase - 1}]

CallEncode ==
  /\ pc = "Encode"
  /\ LET words == MetalEncodeDistinguishedPoint(fnArgs)
     IN  fnRet' = [words |-> words,
                   out |-> MetalDecodeDistinguishedPoint(words)]
  /\ pc' = "done"
  /\ UNCHANGED HelperFrame

(* metal_math: 64-bit helpers on limbs of LimbBits bits, carry and borrow
   as booleans *)
add64_nocc(a, b) ==
  LET sum == (a + b) % LimbBase
  IN  [v |-> sum, carry |-> sum < a]

add64_cDropCarry(a, b, carry) == add64_nocc(a, b)

add64_c(a, b, carry) ==
  LET sum      == (a + b) % LimbBase
      overflow == sum < a
      sum2     == (sum + 1) % LimbBase
  IN  IF carry THEN [v |-> sum2, carry |-> overflow \/ sum2 < sum]
      ELSE [v |-> sum, carry |-> overflow]

sub64_b(a, b, borrow) ==
  LET diff  == (a - b + LimbBase) % LimbBase
      under == a < b
  IN  IF borrow
      THEN [v |-> (diff - 1 + LimbBase) % LimbBase,
            borrow |-> under \/ diff = 0]
      ELSE [v |-> diff, borrow |-> under]

\* uint256_t: the four limbs of a
U256(a) == [i \in 0..3 |-> Limb(a, i)]

u256_add(a, b) ==
  LET r0 == add64_nocc(a[0], b[0])
      r1 == add64_c(a[1], b[1], r0.carry)
      r2 == add64_c(a[2], b[2], r1.carry)
      r3 == add64_c(a[3], b[3], r2.carry)
  IN  [i \in 0..3 |-> IF i = 0 THEN r0.v ELSE IF i = 1 THEN r1.v
                      ELSE IF i = 2 THEN r2.v ELSE r3.v]

u256_sub(a, b) ==
  LET r0 == sub64_b(a[0], b[0], FALSE)
      r1 == sub64_b(a[1], b[1], r0.borrow)
      r2 == sub64_b(a[2], b[2], r1.borrow)
      r3 == sub64_b(a[3], b[3], r2.borrow)
  IN  [i \in 0..3 |-> IF i = 0 THEN r0.v ELSE IF i = 1 THEN r1.v
                      ELSE IF i = 2 THEN r2.v ELSE r3.v]

u256_ge(x, y) ==
  IF x[3] # y[3] THEN x[3] > y[3]
  ELSE IF x[2] # y[2] THEN x[2] > y[2]
  ELSE IF x[1] # y[1] THEN x[1] > y[1]
  ELSE x[0] >= y[0]

U256Base == LimbBase * LimbBase * LimbBase * LimbBase
U256Args == [fn : {"U256"}, a : 0..(U256Base - 1), b : 0..(U256Base - 1)]

CallU256 ==
  /\ pc = "U256"
  /\ fnRet' = [sum  |-> u256_add(U256(fnArgs.a), U256(fnArgs.b)),
               diff |-> u256_sub(U256(fnArgs.a), U256(fnArgs.b)),
               ge   |-> u256_ge(U256(fnArgs.a), U256(fnArgs.b))]
  /\ pc' = "done"
  /\ UNCHANGED HelperFrame

(* main: the range of the search, from the command line or from a file *)

\* the comparison of main on the limbs of --start-* and --end-*
RangeOrdered(start_le, end_le) ==
  LET differ == {i \in 0..3 : start_le[i] # end_le[i]}
      top    == CHOOSE i \in differ : \A j \in differ : j <= i
  IN  differ = {} \/ start_le[top] < end_le[top]

\* u256_to_hex64_be / the 64 digits of hex_to_u256: most significant first
u256_to_hex64_be(v_le) == <<v_le[3], v_le[2], v_le[1], v_le[0]>>

\* Int::SetBase16 on the digits of a line of the configuration file
RECURSIVE SetBase16(_)
SetBase16(digits) ==
  IF digits = <<>> THEN 0
  ELSE LET n == Len(digits)
       IN  digits[n] + LimbBase * SetBase16(SubSeq(digits, 1, n - 1))

\* the range a started search works on: InitRange subtracts in the
\* NB64BLOCK limbs of Int
IntBase == Pow2(NB64BLOCK * LimbBits)
InitRangeWidth(start, end) == (end - start + IntBase) % IntBase

\* ParseConfigFile then Run: the two lines are parsed and the search starts
RunConfigFile(startDigits, endDigits) ==
  LET s == SetBase16(startDigits)
      e == SetBase16(endDigits)
  IN  [exit |-> 0, search |-> TRUE, rangeStart |-> s, rangeEnd |-> e,
       rangeWidth |-> InitRangeWidth(s, e)]

ExitWith(code) ==
  [exit |-> code, search |-> FALSE, rangeStart |-> 0, rangeEnd |-> 0,
   rangeWidth |-> 0]

\* main with -- start/end options (dec or hex) or with a configuration file
MainRange(path, start, end) ==
  IF path \in {"dec", "hex"}
  THEN IF ~RangeOrdered(U256(start), U256(end)) THEN ExitWith(0 - 1)
       ELSE RunConfigFile(u256_to_hex64_be(U256(start)),
                          u256_to_hex64_be(U256(end)))
  ELSE RunConfigFile(u256_to_hex64_be(U256(start)),
                     u256_to_hex64_be(U256(end)))

RangeInputs == {0, 1, 3, 4, 5, 15, 16, 17, 64, 67, 128, 255}
MainArgs == [fn : {"main"}, path : {"config", "dec", "hex"},
             start : RangeInputs, end : RangeInputs]

CallMain ==
  /\ pc = "main"
  /\ fnRet' = MainRange(fnArgs.path, fnArgs.start, fnArgs.end)
  /\ pc' = "done"
  /\ UNCHANGED HelperFrame

(* Run: the per-thread step counters *)
MaxCpuWorkers == 3
MaxGpuWorkers == 2
GpuThreadIdBase == 2
CountersSize == 2 * GpuThreadIdBase

\* Run: params[i].threadId = i; params[id].threadId = 0x80L + i
CpuThreadId(i) == i
GpuThreadId(i) == GpuThreadIdBase + i

\* the steps a worker adds to counters[thId] in one round of its loop
CpuRoundSteps == CPU_GRP_SIZE
GpuRoundSteps == GPU_GRP_SIZE * NB_RUN

RECURSIVE SumTo(_, _)
SumTo(f, n) == IF n = 0 THEN 0 ELSE f[n - 1] + SumTo(f, n - 1)

\* getCPUCount, getGPUCount
getCPUCount(counters, nbCPU) ==
  SumTo([i \in 0..(CountersSize - 1) |-> counters[CpuThreadId(i) % CountersSize]],
        nbCPU)
getGPUCount(counters, nbGPU) ==
  SumTo([i \in 0..(CountersSize - 1) |-> counters[GpuThreadId(i) % CountersSize]],
        nbGPU)

\* the steps added to slot s by the CPU workers, by the GPU workers
CpuAdded(s, a) ==
  IF \E i \in 0..(a.nbCPU - 1) : CpuThreadId(i) = s
  THEN a.rounds * CpuRoundSteps ELSE 0
GpuAdded(s, a) ==
  IF \E i \in 0..(a.nbGPU - 1) : GpuThreadId(i) = s
  THEN a.rounds * GpuRoundSteps ELSE 0

\* counters[s] after the workers have run: "counters[thId] += n" is a plain
\* read-modify-write, so of two threads on one slot the updates of one may
\* be lost
SlotValue(s, a, kept) ==
  IF CpuAdded(s, a) > 0 /\ GpuAdded(s, a) > 0
  THEN CASE kept = "both" -> CpuAdded(s, a) + GpuAdded(s, a)
         [] kept = "cpu"  -> CpuAdded(s, a)
         [] OTHER         -> GpuAdded(s, a)
  ELSE CpuAdded(s, a) + GpuAdded(s, a)

RunArgs == [fn : {"Run"}, nbCPU : 0..MaxCpuWorkers, nbGPU : 0..MaxGpuWorkers,
            rounds : 1..2]

CallRun ==
  /\ pc = "Run"
  /\ \E kept \in {"both", "cpu", "gpu"} :
       LET counters == [s \in 0..(CountersSize - 1) |->
                          SlotValue(s, fnArgs, kept)]
       IN  fnRet' = [counters |-> counters,
                     cpuCount |-> getCPUCount(counters, fnArgs.nbCPU),
                     gpuCount |-> getGPUCount(counters, fnArgs.nbGPU)]
  /\ pc' = "done"
  /\ UNCHANGED HelperFrame

(* comp_kangaroos: the kangaroos of one dispatch are shared out between
   groups * threadsPerGroup threads, GPU_GRP_SIZE kangaroos each *)
MaxGroups == 2
MaxThreadsPerGroup == 3

\* variant: blockBase without the GPU_GRP_SIZE factor
KernelIndexDenseBlocks(tid, g, groupThreads) ==
  (tid \div groupThreads) * groupThreads + g * groupThreads
    + (tid % groupThreads)

\* idx = blockBase + g * groupThreads + localThread, with
\* blockBase = groupIndex * groupThreads * GPU_GRP_SIZE
KernelIndex(tid, g, groupThreads) ==
  (tid \div groupThreads) * groupThreads * GPU_GRP_SIZE
    + g * groupThreads + (tid % groupThreads)

\* the (thread, g) pairs of a dispatch: tid < total_threads, g < GPU_GRP_SIZE
KernelPairs(totalThreads) ==
  (0..(totalThreads - 1)) \X (0..(GPU_GRP_SIZE - 1))

KernelArgs == [fn : {"comp_kangaroos"}, groups : 1..MaxGroups,
               threadsPerGroup : 1..MaxThreadsPerGroup]

\* Run: nbKangaroo = GPU_GRP_SIZE * x * y; allocate: totalThreads =
\* groups * threadsPerGroup; the kernel: every thread writes back
\* kangaroos[idx] for each g unless idx >= total_kangaroos
CallKernel ==
  /\ pc = "comp_kangaroos"
  /\ LET T      == fnArgs.threadsPerGroup
         total  == fnArgs.groups * T
         nbKang == GPU_GRP_SIZE * fnArgs.groups * T
         idx(p) == KernelIndex(p[1], p[2], T)
     IN  fnRet' = [nbKangaroo |-> nbKang,
                   writers |-> [i \in 0..(nbKang - 1) |->
                                  {p \in KernelPairs(total) : idx(p) = i}],
                   skipped |-> {p \in KernelPairs(total) : idx(p) >= nbKang}]
  /\ pc' = "done"
  /\ UNCHANGED HelperFrame

(* SaveWork and RunAsyncSave, the kangaroo part of the two work files *)
MaxSaveThreads == 2
MaxHerdSize == 2

\* threads[i].nbKangaroo for the nbThread workers
HerdSizes == UNION {[1..n -> 1..MaxHerdSize] : n \in 1..MaxSaveThreads}

\* SaveWork is called with a work file or a text work file configured
SaveArgs ==
  {a \in [fn : {"SaveWork"}, saveKangaroo : BOOLEAN,
          saveKangarooText : BOOLEAN, saveKangarooByServer : BOOLEAN,
          clientMode : BOOLEAN, workFile : BOOLEAN, workTextFile : BOOLEAN,
          nbKangaroo : HerdSizes] : a.workFile \/ a.workTextFile}

\* the loop over threads[i].px[n], py[n], distance[n], thread after thread
RECURSIVE HerdFrom(_, _)
HerdFrom(sizes, i) ==
  IF i > Len(sizes) THEN <<>>
  ELSE [n \in 1..sizes[i] |-> [x |-> i, y |-> n, d |-> i + n]]
         \o HerdFrom(sizes, i + 1)

\* variant: the count of the binary file is set whatever saveKangaroo is
TotalWalkAlways(saveK, count) == count

\* payload->totalWalk = saveKangaroo ? actualKangarooCount : 0
TotalWalkOf(saveK, count) == IF saveK THEN count ELSE 0

\* SaveWork: the payload handed to RunAsyncSave
SaveWorkPayload(a) ==
  LET any   == a.saveKangaroo \/ a.saveKangarooText
                 \/ a.saveKangarooByServer
      count == IF any THEN SumSeq(a.nbKangaroo) ELSE 0
      ks    == IF any THEN HerdFrom(a.nbKangaroo, 1) ELSE <<>>
  IN  [headType          |-> IF a.clientMode THEN HEADK ELSE HEADW,
       totalCount        |-> 0,
       totalTime         |-> 0,
       dpBits            |-> dpSize,
       hasBinaryTarget   |-> ~a.saveKangarooByServer /\ a.workFile,
       needServerSend    |-> a.clientMode /\ a.saveKangarooByServer,
       hasTextTarget     |-> a.workTextFile,
       saveKangaroo      |-> a.saveKangaroo,
       saveKangarooText  |-> a.saveKangarooText,
       totalWalk         |-> TotalWalkOf(a.saveKangaroo, count),
       textKangarooCount |-> IF a.saveKangarooText THEN count ELSE 0,
       tableSnapshot     |-> TableSnapshot(hashTable),
       kangarooX         |-> [i \in 1..Len(ks) |-> ks[i].x],
       kangarooY         |-> [i \in 1..Len(ks) |-> ks[i].y],
       kangarooD         |-> [i \in 1..Len(ks) |-> ks[i].d]]

\* SaveWorkTxtSnapshot: the BUCKET and ITEM lines
RECURSIVE BucketLines(_, _)
BucketLines(snapshot, h) ==
  IF h > Len(snapshot) THEN <<>>
  ELSE <<[tag |-> "BUCKET", v |-> snapshot[h].nbItem]>>
         \o [i \in 1..snapshot[h].nbItem |->
               [tag |-> "ITEM", v |-> snapshot[h].entries[i].x]]
         \o BucketLines(snapshot, h + 1)

\* SaveWorkTxtSnapshot: the lines of the text work file
SaveWorkTxtSnapshot(p) ==
  <<[tag |-> "VERSION", v |-> 0], [tag |-> "DP_BITS", v |-> p.dpBits],
    [tag |-> "START", v |-> rangeStart], [tag |-> "STOP", v |-> rangeEnd],
    [tag |-> "KEYX", v |-> SearchedKey.x],
    [tag |-> "KEYY", v |-> SearchedKey.y],
    [tag |-> "COUNT", v |-> p.totalCount],
    [tag |-> "TIME", v |-> p.totalTime],
    [tag |-> "HASH_SIZE", v |-> HASH_SIZE]>>
    \o BucketLines(p.tableSnapshot, 1)
    \o <<[tag |-> "KANGAROOS",
          v |-> IF p.saveKangarooText THEN p.textKangarooCount ELSE 0]>>
    \o (IF p.saveKangarooText
        THEN [i \in 1..Len(p.kangarooX) |->
                [tag |-> "K", v |-> p.kangarooX[i]]]
        ELSE <<>>)

\* SaveWork followed by RunAsyncSave with every write succeeding
CallSaveWork ==
  /\ pc = "SaveWork"
  /\ LET p == SaveWorkPayload(fnArgs)
     IN  fnRet' =
           [headType |-> p.headType,
            binary |-> IF ~p.needServerSend /\ p.hasBinaryTarget
                       THEN [exists |-> TRUE, bytes |-> FlushBytes(p)]
                       ELSE NoFile,
            text   |-> IF p.hasTextTarget
                       THEN [exists |-> TRUE,
                             lines  |-> SaveWorkTxtSnapshot(p)]
                       ELSE [exists |-> FALSE, lines |-> <<>>]]
  /\ pc' = "done"
  /\ UNCHANGED HelperFrame

(* main with the range and the key given on the command line: the
   ephemeral configuration file.  tmp is the state of the file on disk,
   ended the way the process ended. *)
CliStart ==
  [tmp |-> "none", cli_tmp_config_path |-> "", cli_using_config |-> FALSE,
   ended |-> "no", code |-> 0]

\* make_ephemeral_config: mkstemp fails, or the write fails and the file
\* is unlinked, or the path of the written file is returned
make_ephemeral_config(st, mkstemp) ==
  IF mkstemp = "fail" THEN st
  ELSE IF mkstemp = "writeFail" THEN [st EXCEPT !.tmp = "removed"]
  ELSE [st EXCEPT !.tmp = "exists", !.cli_tmp_config_path = "kang_cfg"]

\* cleanup_cli_config
cleanup_cli_config(st) ==
  [st EXCEPT !.tmp = IF st.cli_using_config /\ st.cli_tmp_config_path # ""
                     THEN "removed" ELSE @,
             !.cli_tmp_config_path = "",
             !.cli_using_config = FALSE]

\* exit_with(code): cleanup_cli_config(); ::exit(code)
exit_with(st, code) ==
  [cleanup_cli_config(st) EXCEPT !.ended = "exit_with", !.code = code]

\* ::exit(code) called directly
exit(st, code) == [st EXCEPT !.ended = "exit", !.code = code]

\* Kangaroo::Run up to the end of the search: no thread, GetGridSize
\* fails (builds with the CUDA engine), the server gives no configuration
\* in client mode, or the keys are searched and Run returns
KangarooRun(st, a) ==
  IF a.totalThread = 0 THEN exit(st, 0)
  ELSE IF ~a.gridSizeOk THEN st
  ELSE IF a.clientMode /\ ~a.serverOk THEN exit(st, 0)
  ELSE st

\* main from make_ephemeral_config on
MainCli(a) ==
  LET made == make_ephemeral_config(CliStart, a.mkstemp)
      st   == [made EXCEPT !.cli_using_config = TRUE]
      ran  == KangarooRun(st, a)
  IN  IF a.mkstemp # "ok" THEN exit_with(made, 0 - 1)
      ELSE IF ~a.gridCoherent THEN exit_with(st, 0 - 1)
      ELSE IF a.mode \in {"check", "checkWork", "info", "mergeDir", "merge"}
      THEN exit_with(st, 0)
      ELSE IF ~a.inputOk THEN exit_with(st, 0 - 1)
      ELSE IF ran.ended # "no" THEN ran
      ELSE [cleanup_cli_config(ran) EXCEPT !.ended = "return"]

CliArgs == [fn : {"cli"}, mkstemp : {"ok", "fail", "writeFail"},
            gridCoherent : BOOLEAN,
            mode : {"check", "checkWork", "info", "mergeDir", "merge",
                    "loadWork", "config"},
            inputOk : BOOLEAN, totalThread : 0..1, gridSizeOk : BOOLEAN,
            clientMode : BOOLEAN, serverOk : BOOLEAN]

CallMainCli ==
  /\ pc = "cli"
  /\ fnRet' = MainCli(fnArgs)
  /\ pc' = "done"
  /\ UNCHANGED HelperFrame

(* Specification SpecHelpers *)
InitHelpers ==
  /\ FixedConfig /\ InitShared /\ NoHerd /\ NoResolverCall /\ NoGpu
  /\ NoThreads /\ NoSave /\ NoJump
  /\ addLog = <<>>
  /\ fnArgs \in DpArgs \cup PackArgs \cup EncodeArgs \cup U256Args
                 \cup MainArgs \cup RunArgs \cup KernelArgs \cup SaveArgs
                 \cup CliArgs
  /\ fnRet = <<>>
  /\ pc = fnArgs.fn

NextHelpers ==
  \/ CallSetDP \/ CallPack \/ CallEncode \/ CallU256 \/ CallMain \/ CallRun
  \/ CallKernel \/ CallSaveWork \/ CallMainCli

SpecHelpers == InitHelpers /\ [][NextHelpers]_vars

\* C21: distinguished-point filter: after SetDP(dpBits), IsDP(x) holds iff
\* the top dpBits bits of the limb x are all zero; dpBits = 0 accepts every
\* x, the full width accepts only x = 0, a size above the width is clamped
C21_DpFilter ==
  Did("SetDP") =>
    LET w == DpLimbBits
        n == IF fnArgs.size > w THEN w ELSE fnArgs.size
    IN  /\ fnRet.dpSize = n
        /\ fnRet.isDP <=> TopBitsZero(fnArgs.x, n, w)
        /\ fnArgs.size = 0 => fnRet.isDP
        /\ fnArgs.size >= w => (fnRet.isDP <=> fnArgs.x = 0)

C21_Witness ==
  /\ Did("SetDP") /\ fnArgs.size > DpLimbBits /\ fnArgs.x = 0 /\ fnRet.isDP

\* C22: kangaroo packing round trip: PackKangaroo copies px and py limb for
\* limb and stores dist (plus wildOffset mod n for a wild index) in two
\* limbs, and UnpackKangaroo of the result returns exactly (px, py, dist)
C22_PackRoundTrip ==
  Did("Pack") =>
    LET adjusted == IF fnArgs.index % 2 = WILD
                    THEN (fnArgs.dist + fnArgs.off) % OrderN
                    ELSE fnArgs.dist
    IN  /\ \A i \in 0..3 : /\ fnRet.packed.px[i] = Limb(fnArgs.px, i)
                           /\ fnRet.packed.py[i] = Limb(fnArgs.py, i)
        /\ \A i \in 0..1 : fnRet.packed.dist[i] = GpuLimb(adjusted, i)
        /\ fnRet.out = [x |-> fnArgs.px, y |-> fnArgs.py, d |-> fnArgs.dist]

C22_Witness ==
  /\ Did("Pack") /\ fnArgs.index % 2 = WILD /\ fnArgs.off > 0
  /\ fnArgs.dist + fnArgs.off >= GpuDistLimb
  /\ fnRet.out.d = fnArgs.dist /\ fnArgs.px > LimbBase

\* C23: DP item encoding round trip: the 14 words are the four x limbs low
\* word first, the two distance limbs and the low / high half of the index,
\* and decoding them returns the same x (4 limbs), dist (2 limbs) and index,
\* with every higher limb of the decoded x and dist zero
C23_EncodeRoundTrip ==
  Did("Encode") =>
    /\ \A i \in 0..3 : /\ fnRet.words[2 * i] = LowWord(fnArgs.x[i])
                       /\ fnRet.words[2 * i + 1] = HighWord(fnArgs.x[i])
    /\ \A i \in 0..1 : /\ fnRet.words[8 + 2 * i] = LowWord(fnArgs.dist[i])
                       /\ fnRet.words[9 + 2 * i] = HighWord(fnArgs.dist[i])
    /\ fnRet.words[12] = LowWord(fnArgs.index)
    /\ fnRet.words[13] = HighWord(fnArgs.index)
    /\ \A i \in 0..(NB64BLOCK - 1) :
         /\ fnRet.out.x[i] = (IF i < 4 THEN fnArgs.x[i] ELSE 0)
         /\ fnRet.out.dist[i] = (IF i < 2 THEN fnArgs.dist[i] ELSE 0)
    /\ fnRet.out.index = fnArgs.index

C23_Witness ==
  /\ Did("Encode") /\ fnArgs.x[4] # 0 /\ fnArgs.dist[2] # 0
  /\ fnArgs.x[0] # 0 /\ fnArgs.dist[1] # 0
  /\ fnArgs.index = 7 /\ fnRet.out.index = 7 /\ fnRet.out.x[4] = 0

\* C24: 256-bit helper arithmetic: u256_add(a, b) = (a + b) mod 2^256,
\* u256_sub(a, b) = (a - b) mod 2^256 and u256_ge(a, b) = (a >= b), carries
\* and borrows propagated through all four limbs
C24_U256Arithmetic ==
  Did("U256") =>
    /\ IntOfLimbs(fnRet.sum) = (fnArgs.a + fnArgs.b) % U256Base
    /\ IntOfLimbs(fnRet.diff) = (fnArgs.a - fnArgs.b + U256Base) % U256Base
    /\ fnRet.ge <=> fnArgs.a >= fnArgs.b

C24_Witness ==
  /\ Did("U256")
  /\ fnArgs.a = U256Base - 1 /\ fnArgs.b = 1
  /\ IntOfLimbs(fnRet.sum) = 0 /\ fnRet.ge


-----------------------------------------------------------------------------
(* Abort on maxStep *)

\* C25: once Process has seen the step count above maxStep * expectedNbOp
\* it has set endOfSearch and reported "Aborted"; from there every worker
\* terminates, isAlive becomes false and Process returns, which ends the
\* search for the key.
C25_MaxStepAbort ==
  (opc = "aborted") ~>
     (/\ \A w \in Workers : wpc[w] = "done"
      /\ ~isAlive
      /\ opc = "returned")


-----------------------------------------------------------------------------
(* Format of the file handed to LoadWork *)

ExpectedHead == IF clientMode THEN HEADK ELSE HEADW

\* C26: LoadWork returns false whenever the magic of the file is not the
\* expected type or its version is not the supported version.
C26_FormatMismatch ==
  pc = "loadedForeign" =>
    ((loaded.fileHead # ExpectedHead \/ loaded.fileVersion # SupportedVersion)
       => ~loaded.work.ok)

\* the part of C26 about the magic alone, which the code fulfils
C26_MagicChecked ==
  pc = "loadedForeign" =>
    (loaded.fileHead # ExpectedHead => ~loaded.work.ok)


-----------------------------------------------------------------------------
(* The range given to main *)

\* C27: whatever the way the range is given (configuration file,
\* --start-dec/--end-dec, --start-hex/--end-hex), rangeStart > rangeEnd
\* makes the process exit with an error and no search is started.
C27_InvalidRangeRejected ==
  (Did("main") /\ fnArgs.start > fnArgs.end) =>
     (fnRet.exit # 0 /\ ~fnRet.search)

\* the part of C27 about the command-line options, which main fulfils
C27_CliRangeRejected ==
  (Did("main") /\ fnArgs.path # "config" /\ fnArgs.start > fnArgs.end) =>
     (fnRet.exit # 0 /\ ~fnRet.search)


-----------------------------------------------------------------------------
(* A GPU backend that cannot be started *)

\* SolveKeyGPU has returned from its prologue: CreateBackend returned no
\* backend, or init, allocate or an upload failed
BackendFailed(g) == wpc[g] = "done" /\ thIsRunning[g]

\* a CPU worker completes a walk of its group
CpuWalks == \E w \in CpuThreads : wpc[w] = "walk" /\ wpc'[w] = "dp"

\* C28: when the GPU backend requested cannot be created or initialised the
\* run fails at start: from then on no CPU worker performs a walk, the
\* engine does not go on searching without the accelerator.
C28_BackendFatal ==
  [][(\E g \in GpuThreads : BackendFailed(g)) => ~CpuWalks]_vars


-----------------------------------------------------------------------------
(* The step counters *)

CpuSlots(nbCPU) == {CpuThreadId(i) : i \in 0..(nbCPU - 1)}
GpuSlots(nbGPU) == {GpuThreadId(i) : i \in 0..(nbGPU - 1)}

\* C29: for every number of CPU and GPU workers no two workers write the
\* same counters[] slot, and getCPUCount and getGPUCount are the sums of the
\* steps of the CPU workers and of the GPU workers.
C29_CountersPerWorker ==
  Did("Run") =>
    /\ CpuSlots(fnArgs.nbCPU) \cap GpuSlots(fnArgs.nbGPU) = {}
    /\ fnRet.cpuCount = fnArgs.nbCPU * fnArgs.rounds * CpuRoundSteps
    /\ fnRet.gpuCount = fnArgs.nbGPU * fnArgs.rounds * GpuRoundSteps

\* the part of C29 that the code fulfils: up to GpuThreadIdBase CPU workers
C29_FewCpuWorkers ==
  (Did("Run") /\ fnArgs.nbCPU <= GpuThreadIdBase) =>
    /\ CpuSlots(fnArgs.nbCPU) \cap GpuSlots(fnArgs.nbGPU) = {}
    /\ fnRet.cpuCount = fnArgs.nbCPU * fnArgs.rounds * CpuRoundSteps
    /\ fnRet.gpuCount = fnArgs.nbGPU * fnArgs.rounds * GpuRoundSteps


-----------------------------------------------------------------------------
(* Split work files *)

\* the number of snapshots and tables that hold the point
Holders(dp) ==
  Cardinality({i \in 1..Len(payload) : dp \in payload[i]})
    + (IF dp \in hashTable THEN 1 ELSE 0)

\* C30: split mode loses and duplicates no distinguished point.  While
\* SaveWork captures the table and until it has reset it no worker is in an
\* Add, and once the table is reset every point ever accepted is in exactly
\* one of the captured snapshots and the table of the running epoch.
C30_SplitKeepsEveryDp ==
  splitWorkfile =>
    /\ opc \in {"captureTable", "captureHerd"} =>
          \A w \in Workers : wpc[w] # "add"
    /\ opc # "captureHerd" =>
          \A k \in 1..Len(addLog) : Holders(addLog[k]) = 1

C30_Witness ==
  /\ splitWorkfile
  /\ Len(payload) = 2 /\ Len(addLog) = 2
  /\ addLog[1] \in payload[1] /\ addLog[2] \in payload[2]
  /\ hashTable = {}


-----------------------------------------------------------------------------
(* Suspension of the walkers *)

\* C31: a CPU worker raises isWaiting only at a step boundary: it is not in
\* the middle of a walk or of the Add loop, and every distinguished point of
\* the completed step has been offered to the hash table.
C31_SuspendAtStepBoundary ==
  \A w \in CpuThreads :
     thIsWaiting[w] => (wpc[w] = "waitSave" /\ ~thPending[w])

\* the part of C31 about the position of the walker, which the code fulfils
C31_SuspendBetweenSteps ==
  \A w \in CpuThreads : thIsWaiting[w] => wpc[w] = "waitSave"


\* slot i (from 0) of dp_items read in the layout StoreDpItem writes:
\* words 0.. x limbs, then the distance limbs, then the kangaroo index
KernelItem(items, i) ==
  LET w    == RingItem(items, i)
      x    == w[1] + LimbBase * w[2] + LimbBase * LimbBase * w[3]
                + LimbBase * LimbBase * LimbBase * w[4]
      d    == w[5] + GpuDistLimb * w[6]
  IN  [x |-> x,
       d |-> IF w[7] % 2 = WILD THEN ModSubK1order(d, wildOffset) ELSE d,
       kIdx |-> w[7]]

\* C32: host/kernel DP layout agreement.  For every ring slot i < outCount
\* the (x, dist, kangaroo index) the host decoded in SolveKeyGPU from the
\* buffer filled by readDP is the item the kernel stored with StoreDpItem
\* at position i.
C32_LayoutAgreement ==
  AfterDispatch =>
     \A i \in 1..outCount : gpuFound[i] = KernelItem(dpItems, i - 1)


\* C33: endOfSearch is monotonic within one key search.  Once it is true
\* (a verified collision or the maxStep abort) no step of any thread makes
\* it false while a worker of that key has not terminated.
C33_EndOfSearchMonotonic ==
  [][(endOfSearch /\ ~endOfSearch') =>
        \A w \in Workers : wpc[w] = "done"]_vars


\* worker w has run the code after its loop: px, py and distance were
\* released (safe_delete_array) and isRunning was cleared
Released(w) == wpc[w] = "done" /\ ~thIsRunning[w]

\* C34: no use of a freed herd.  Whenever SaveWork reads threads[i].px, py
\* and distance to build the payload, worker i has not released them.
C34_NoFreedHerdRead ==
  (opc = "captureHerd" /\ saveKangaroo) => \A w \in Workers : ~Released(w)


\* C35: every way a worker thread ends leaves hasStarted = true and
\* isRunning = false, for SolveKeyCPU and for every exit of SolveKeyGPU,
\* the failures of backend creation, init, allocate and the uploads
\* included.
C35_EndedWorkerNotRunning ==
  \A w \in Workers : wpc[w] = "done" => (thHasStarted[w] /\ ~thIsRunning[w])


\* the collision HashTable::Add reports for kangaroo g is with an entry of
\* the other kind and one of the checks of CollisionCheck gives the key
VerifiedAt(g) ==
  /\ AddStatus(g).status = ADD_COLLISION
  /\ AddStatus(g).kType # KType(g)
  /\ CheckKeys(IF KType(g) = WILD THEN AddStatus(g).kDist ELSE distance[g],
               IF KType(g) = WILD THEN distance[g] ELSE AddStatus(g).kDist,
               0).ok

\* what AddToTable returns for the distinguished point of kangaroo g
AddReturn(g) ==
  AddToTable(hashTable, px[g], distance[g], KType(g), endOfSearch).ret

IsOfKind(k, type) ==
  k.x = AddDirect(IF type = TAME THEN PointZero ELSE keyToSearch,
                  ComputePublicKey(k.d)).x

\* C37: kind by parity.  In the herd FectchKangaroos hands to a worker the
\* kangaroo at index g is tame iff g is even: the kangaroos read from the
\* file keep the kind of their position and the slots FetchWalks fills
\* when fewer kangaroos were loaded than requested get a kangaroo of kind
\* g mod 2, for every loaded count.
C37_KindByParity ==
  (pc \in {"loaded", "loadedShort"} /\ loaded.ok) =>
     \A i \in 1..CPU_GRP_SIZE : IsOfKind(loaded.herd[i], (i - 1) % 2)

\* the same for the loads that read a whole herd or none
C37_FullLoadByParity ==
  (pc = "loaded" /\ loaded.ok) =>
     \A i \in 1..CPU_GRP_SIZE : IsOfKind(loaded.herd[i], (i - 1) % 2)


\* C38: GPU index partition.  For groups x threadsPerGroup threads with
\* GPU_GRP_SIZE kangaroos each, idx = blockBase + g * groupThreads +
\* localThread maps the pairs (thread, g) one-to-one onto
\* [0, GPU_GRP_SIZE * groups * threadsPerGroup): every kangaroo is written
\* back by exactly one pair and no pair falls outside the herd.
C38_IndexPartition ==
  Did("comp_kangaroos") =>
    /\ \A i \in 0..(fnRet.nbKangaroo - 1) :
          Cardinality(fnRet.writers[i]) = 1
    /\ fnRet.skipped = {}

C38_Witness ==
  /\ Did("comp_kangaroos")
  /\ fnArgs.groups > 1 /\ fnArgs.threadsPerGroup > 1
  /\ fnRet.writers[fnRet.nbKangaroo - 1] # {}


\* where the u64 kangaroo count sits in a binary work file: after the
\* header and the HASH_SIZE buckets of the table
CountPos(bytes, head) ==
  LoadTable(bytes,
            U32 + U32 + (IF head = HEADW THEN Total(LoadLayout) ELSE 0),
            0).pos

\* the line of the text work file that announces the kangaroos
KangaroosLine(lines) == CHOOSE k \in 1..Len(lines) : lines[k].tag = "KANGAROOS"

\* C39: the kangaroo count written into a work file equals the number of
\* (x, y, d) records that follow it: in the binary file totalWalk records
\* of 3 x 32 bytes follow the u64 totalWalk, in the text file exactly the
\* announced number of K lines follow the KANGAROOS line, for every
\* combination of saveKangaroo, saveKangarooText and saveKangarooByServer.
C39_CountMatchesRecords ==
  Did("SaveWork") =>
    /\ fnRet.binary.exists =>
         LET b   == fnRet.binary.bytes
             pos == CountPos(b, fnRet.headType)
         IN  /\ pos + U64 <= Len(b)
             /\ Len(b) - (pos + U64) = Field(b, pos, U64) * 3 * Int256
    /\ fnRet.text.exists =>
         LET L == fnRet.text.lines
             k == KangaroosLine(L)
         IN  /\ \E j \in 1..Len(L) : L[j].tag = "KANGAROOS"
             /\ L[k].v = Len(L) - k
             /\ \A j \in (k + 1)..Len(L) : L[j].tag = "K"

\* both files written, kangaroos asked for in the text file only, two herds
C39_Witness ==
  /\ Did("SaveWork")
  /\ fnRet.binary.exists /\ fnRet.text.exists
  /\ fnArgs.saveKangarooText /\ ~fnArgs.saveKangaroo
  /\ Len(fnArgs.nbKangaroo) > 1
  /\ Len(fnRet.text.lines) > KangaroosLine(fnRet.text.lines)


\* C40: the ephemeral configuration file is auto-managed.  On every path
\* by which the process ends after make_ephemeral_config created the file
\* (return from main, exit_with, the exits taken inside Kangaroo::Run) the
\* file has been removed.
C40_TempFileRemoved ==
  (Did("cli") /\ fnArgs.mkstemp # "fail" /\ fnRet.ended # "no") =>
     fnRet.tmp = "removed"

\* the same for the ends that go through main: return and exit_with
C40_MainExitsRemove ==
  (Did("cli") /\ fnArgs.mkstemp # "fail"
     /\ fnRet.ended \in {"return", "exit_with"}) => fnRet.tmp = "removed"

=============================================================================
